---- MODULE Spec2Model ----
(***************************************************************************)
(* Azure DevOps Backlog Explorer: the TTL cache of AdoService, its cache    *)
(* keys, the invalidation done by mutations, and the filter / debounce      *)
(* state of AdoBacklogProvider.                                             *)
(*                                                                          *)
(* Strings are sequences of one-character strings, so that prefixes, JSON   *)
(* serialisation and template literals are computed, not assumed.           *)
(***************************************************************************)
EXTENDS Integers, Sequences, FiniteSets, TLC

VARIABLES
    now,              \* Date.now(), in ms
    config,           \* AdoService.config, reduced to "is it complete"
    connection,       \* AdoService.connection (null or the id of the WebApi object)
    cache,            \* AdoService.cache : Map<string, {data, timestamp}>
    stateCache,       \* AdoService.stateCache : Map<string, string[]>
    searchText,       \* AdoBacklogProvider.searchText
    iterationFilter,  \* AdoBacklogProvider.iterationFilter
    tagsFilter,       \* AdoBacklogProvider.tagsFilter
    assignedToFilter, \* AdoBacklogProvider.assignedToFilter
    refreshTimeout,   \* AdoBacklogProvider.refreshTimeout (handle of the last timer armed)
    timers,           \* pending setTimeout callbacks of the event loop
    remoteVer,        \* number of mutations the remote system has committed
    fetches,          \* getEpicsForTeam / getChildWorkItems calls suspended at an await
    muts,             \* mutation calls suspended at an await
    budget,           \* operations the environment may still start
    obs,              \* what the last step did, as seen by its caller
    kq,               \* inputs and outputs of the pure computation under study
    remoteTags,       \* the System.Tags field of the work item at the remote system
    currentTags,      \* the tags of the work item panel opened last
    panels,           \* the detail panels created so far, open or disposed
    openPanels,       \* openPanels : Map<number, vscode.WebviewPanel>
    commands,         \* the commands registered with vscode.commands
    refreshing,       \* the event fired by adoBacklog.refresh has not been served yet
    loadedCounts      \* AdoBacklogProvider.loadedCounts : Map<string, number>

vars == <<now, config, connection, cache, stateCache, searchText, iterationFilter,
          tagsFilter, assignedToFilter, refreshTimeout, timers, remoteVer, fetches,
          muts, budget, obs, kq, remoteTags, currentTags, panels, openPanels, commands, refreshing,
          loadedCounts>>

----------------------------------------------------------------------------
(* Bounds of the model *)

MaxOps == 3
MaxBrowseOps == 4
MaxInvOps == 1
MaxFilterOps == 5
MaxPageOps == 3

----------------------------------------------------------------------------
(* JavaScript values *)

Null == [null |-> TRUE]
Undefined == [undefined |-> TRUE]
Val(v) == [val |-> v]

RECURSIVE Join(_, _)
Join(ss, sep) ==
    IF ss = <<>> THEN <<>>
    ELSE IF Len(ss) = 1 THEN Head(ss)
    ELSE Head(ss) \o sep \o Join(Tail(ss), sep)

startsWith(s, prefix) ==
    /\ Len(prefix) <= Len(s)
    /\ SubSeq(s, 1, Len(prefix)) = prefix

Digit(d) ==
    CASE d = 0 -> "0" [] d = 1 -> "1" [] d = 2 -> "2" [] d = 3 -> "3" [] d = 4 -> "4"
      [] d = 5 -> "5" [] d = 6 -> "6" [] d = 7 -> "7" [] d = 8 -> "8" [] d = 9 -> "9"

RECURSIVE NumStr(_)
NumStr(n) ==
    IF n < 10 THEN <<Digit(n)>> ELSE NumStr(n \div 10) \o <<Digit(n % 10)>>

(* JSON.stringify of a string: quoted, with the quote and the backslash escaped *)
RECURSIVE JsonEscape(_)
JsonEscape(s) ==
    IF s = <<>> THEN <<>>
    ELSE (IF Head(s) \in {"\"", "\\"} THEN <<"\\", Head(s)>> ELSE <<Head(s)>>)
         \o JsonEscape(Tail(s))

JsonString(s) == <<"\"">> \o JsonEscape(s) \o <<"\"">>

JsonArray(ss) ==
    <<"[">> \o Join([i \in 1..Len(ss) |-> JsonString(ss[i])], <<",">>) \o <<"]">>

SelectDefined(ps) == SelectSeq(ps, LAMBDA p : p[2] # Undefined)

(* JSON.stringify of the filters object: properties in insertion order,      *)
(* undefined-valued properties left out                                      *)
JsonFilters(f) ==
    LET s_searchText == <<"s","e","a","r","c","h","T","e","x","t">>
        s_iteration  == <<"i","t","e","r","a","t","i","o","n">>
        s_tags       == <<"t","a","g","s">>
        s_assignedTo == <<"a","s","s","i","g","n","e","d","T","o">>
        props == << <<s_searchText, f.searchText>>, <<s_iteration, f.iteration>>,
                    <<s_tags, f.tags>>, <<s_assignedTo, f.assignedTo>> >>
        shown == SelectDefined(props)
        Prop(p) == JsonString(p[1]) \o <<":">>
                   \o (IF p[1] = s_tags THEN JsonArray(p[2].val) ELSE JsonString(p[2].val))
    IN  <<"{">> \o Join([i \in 1..Len(shown) |-> Prop(shown[i])], <<",">>) \o <<"}">>

----------------------------------------------------------------------------
(* Cache keys *)

s_nofilters == <<"n","o","f","i","l","t","e","r","s">>
s_epics     == <<"e","p","i","c","s","_">>
s_children  == <<"c","h","i","l","d","r","e","n","_">>
s_witFields == <<"w","i","t","F","i","e","l","d","s","_">>
s_allTeamMembers == <<"a","l","l","T","e","a","m","M","e","m","b","e","r","s">>

(* a filter key that tells a filters object from none, but not two objects *)
FilterKeyBlind(filters) ==
    IF filters # Undefined THEN <<"{", "}">> ELSE s_nofilters

(* const filterKey = filters ? JSON.stringify(filters) : 'nofilters' *)
FilterKey(filters) ==
    IF filters # Undefined THEN JsonFilters(filters) ELSE s_nofilters

EpicsCacheKey(areaPathName, filters) ==
    s_epics \o areaPathName \o <<"_">> \o FilterKey(filters)

ChildrenCacheKey(parentId, filters) ==
    s_children \o NumStr(parentId) \o <<"_">> \o FilterKey(filters)

(* the key getBatchChildWorkItems looks up *)
BatchCacheKey(parentId) == s_children \o NumStr(parentId)

WitFieldsCacheKey(workItemType) == s_witFields \o workItemType

(* x || undefined *)
OrUndefined(x) == IF x = <<>> THEN Undefined ELSE Val(x)

FiltersOf(st, it, tg, at) ==
    [searchText |-> OrUndefined(st),
     iteration  |-> OrUndefined(it),
     tags       |-> IF Len(tg) > 0 THEN Val(tg) ELSE Undefined,
     assignedTo |-> OrUndefined(at)]

getfiltersForService == FiltersOf(searchText, iterationFilter, tagsFilter, assignedToFilter)

----------------------------------------------------------------------------
(* AdoService: the TTL cache *)

CACHE_TTL == 5 * 60 * 1000

EmptyMap == [k \in {} |-> Null]

MapSet(m, key, value) ==
    [k \in DOMAIN m \cup {key} |-> IF k = key THEN value ELSE m[k]]

MapDelete(m, keys) == [k \in DOMAIN m \ keys |-> m[k]]

(* a getCached that still serves an entry at the instant its time to live ends *)
LookupInclusive(c, key, t) ==
    IF key \in DOMAIN c /\ t - c[key].timestamp <= CACHE_TTL
    THEN c[key].data
    ELSE Null

(* getCached, on a given map at a given time *)
Lookup(c, key, t) ==
    IF key \in DOMAIN c /\ t - c[key].timestamp < CACHE_TTL
    THEN c[key].data
    ELSE Null

getCached(key) == Lookup(cache, key, now)

(* a test that takes the empty list for a missing entry *)
TruthyNonEmpty(x) == x # Null /\ x.items # <<>>

(* if (cached) return cached;  -- a list, even the empty one, is truthy *)
Truthy(x) == x # Null

(* a write that leaves an entry already present as it is *)
setCacheOnce(c, key, data) ==
    IF key \in DOMAIN c THEN c ELSE MapSet(c, key, [data |-> data, timestamp |-> now])

setCache(c, key, data) == MapSet(c, key, [data |-> data, timestamp |-> now])

(* an invalidation that removes the entries of the mutated item only *)
invalidateOwnEntries(c, workItemId) ==
    MapDelete(c, {key \in DOMAIN c :
                     startsWith(key, s_children \o NumStr(workItemId) \o <<"_">>)})

(* an invalidation that empties the cache *)
invalidateEverything(c, workItemId) == EmptyMap

invalidateWorkItemCache(c, workItemId) ==
    LET c1 == MapDelete(c, {BatchCacheKey(workItemId)})
        keysToDelete == {key \in DOMAIN c1 :
                            startsWith(key, s_children) \/ startsWith(key, s_epics)}
    IN  MapDelete(c1, keysToDelete)

(* isConfigured, on a given configuration *)
isConfigured(cfg) == cfg.organizationUrl /\ cfg.pat /\ cfg.project

(* loadConfig: a new WebApi object only when the configuration is complete *)
loadConfig(cfg, conn) ==
    IF isConfigured(cfg) THEN Val(cfg.id) ELSE conn

----------------------------------------------------------------------------
(* Inputs of the model *)

AreaPaths == {<<"A">>}
ParentIds == {1}
TagInputs == {<<>>, << <<"u">> >>}
TextInputs == {<<>>}
s_Epic == <<"E","p","i","c">>
WorkItemTypes == {s_Epic}
MutationKinds == {"update", "delete", "create", "unlink", "relink"}

(* the adoBacklog settings the user can save *)
ConfiguredFor(id) ==
    [organizationUrl |-> TRUE, pat |-> TRUE, project |-> TRUE, id |-> id]

Configs == {ConfiguredFor(1), [ConfiguredFor(2) EXCEPT !.pat = FALSE]}

(* lists of ids a query for epics can answer with *)
EpicIdLists == {<<>>, <<1>>}

(* workItemRelations of a hierarchy query: none, the source row alone,      *)
(* the source row and one child                                             *)
RelationRows == {<<>>, << [target |-> Val(1)] >>,
                 << [target |-> Val(1)], [target |-> Val(5)] >>}

(* a property of an answer that may be missing *)
Optional(S) == {Undefined} \cup {Val(x) : x \in S}

(* time the user lets pass between two operations *)
Delays == {100}

----------------------------------------------------------------------------
(* The event loop: timers *)

DEBOUNCE_MS == 300
PREFETCH_MS == 500

Observe(op, key, ret, fired, remote, dropped) ==
    [op |-> op, key |-> key, ret |-> ret, fired |-> fired, remote |-> remote,
     dropped |-> dropped]

Idle == Observe("none", <<>>, Null, 0, FALSE, {})

Dropped(c1, c2) == DOMAIN c1 \ DOMAIN c2

RECURSIVE RemoveFirst(_, _)
RemoveFirst(ts, t) ==
    IF ts = <<>> THEN <<>>
    ELSE IF Head(ts) = t THEN Tail(ts)
    ELSE <<Head(ts)>> \o RemoveFirst(Tail(ts), t)

(* setTimeout(callback, ms) called at time armed *)
Timer(kind, armed, ms, ids) ==
    [kind |-> kind, armed |-> armed, deadline |-> armed + ms, ids |-> ids]

(* clearTimeout: the handle names the timer by the time it was armed; a     *)
(* no-op on a handle whose timer has fired                                   *)
clearTimeout(ts, handle) ==
    RemoveFirst(ts, Timer("debounce", handle.val, DEBOUNCE_MS, <<>>))

(* a refresh() that arms a timer and leaves the pending one running *)
refreshKeepingPending(ts) == Append(ts, Timer("debounce", now, DEBOUNCE_MS, <<>>))

(* AdoBacklogProvider.refresh: cancel the pending timer, arm a new one *)
refresh(ts) ==
    LET cleared == IF refreshTimeout # Undefined THEN clearTimeout(ts, refreshTimeout)
                   ELSE ts
    IN  Append(cleared, Timer("debounce", now, DEBOUNCE_MS, <<>>))

Due(i) == timers[i].deadline <= now

FirstDue(i) == Due(i) /\ \A j \in 1..(i - 1) : ~Due(j)

Without(ts, i) == SubSeq(ts, 1, i - 1) \o SubSeq(ts, i + 1, Len(ts))

ServiceUnchanged == UNCHANGED <<config, connection, cache, stateCache>>
FiltersUnchanged == UNCHANGED <<searchText, iterationFilter, tagsFilter, assignedToFilter>>
RemoteUnchanged == UNCHANGED <<remoteVer, fetches, muts>>

(* time passes, never beyond the deadline of a pending timer *)
Pass(t) ==
    /\ t > now
    /\ \A i \in 1..Len(timers) : t <= timers[i].deadline
    /\ now' = t
    /\ obs' = Idle
    /\ ServiceUnchanged /\ FiltersUnchanged /\ RemoteUnchanged
    /\ UNCHANGED <<refreshTimeout, timers, kq, panels, openPanels, commands, remoteTags, currentTags, refreshing, loadedCounts>>

(* the user waits *)
Advance(d) ==
    /\ budget > 0
    /\ budget' = budget - 1
    /\ Pass(now + d)

(* the event loop sleeps until the next timer is due *)
AdvanceToTimer(i) ==
    /\ UNCHANGED budget
    /\ Pass(timers[i].deadline)

(* the callback of refresh()'s setTimeout: _onDidChangeTreeData.fire *)
DebounceFire(i) ==
    /\ FirstDue(i)
    /\ timers[i].kind = "debounce"
    /\ timers' = Without(timers, i)
    /\ obs' = Observe("debounce", <<>>, Null, 1, FALSE, {})
    /\ ServiceUnchanged /\ FiltersUnchanged /\ RemoteUnchanged
    /\ UNCHANGED <<now, refreshTimeout, budget, kq, panels, openPanels, commands, remoteTags, currentTags, refreshing, loadedCounts>>

----------------------------------------------------------------------------
(* AdoBacklogProvider: filters and refresh *)

(* a filter operation that also empties the cache, as the refresh command does *)
FilterOpClearing ==
    /\ budget > 0
    /\ budget' = budget - 1
    /\ timers' = refresh(timers)
    /\ refreshTimeout' = Val(now)
    /\ obs' = Idle
    /\ cache' = EmptyMap
    /\ RemoteUnchanged
    /\ UNCHANGED <<now, config, connection, stateCache, kq, panels, openPanels, commands, remoteTags, currentTags, refreshing, loadedCounts>>

(* this.refresh() at the end of a setter, of clearFilters and of handleDrop *)
FilterOp ==
    /\ budget > 0
    /\ budget' = budget - 1
    /\ timers' = refresh(timers)
    /\ refreshTimeout' = Val(now)
    /\ obs' = Idle
    /\ ServiceUnchanged /\ RemoteUnchanged
    /\ UNCHANGED <<now, kq, panels, openPanels, commands, remoteTags, currentTags, refreshing, loadedCounts>>

setSearchText(text) ==
    /\ searchText' = text
    /\ UNCHANGED <<iterationFilter, tagsFilter, assignedToFilter>>
    /\ FilterOp

setIterationFilter(iteration) ==
    /\ iterationFilter' = iteration
    /\ UNCHANGED <<searchText, tagsFilter, assignedToFilter>>
    /\ FilterOp

setTagsFilter(tags) ==
    /\ tagsFilter' = tags
    /\ UNCHANGED <<searchText, iterationFilter, assignedToFilter>>
    /\ FilterOp

setAssignedToFilter(assignedTo) ==
    /\ assignedToFilter' = assignedTo
    /\ UNCHANGED <<searchText, iterationFilter, tagsFilter>>
    /\ FilterOp

(* a clearFilters that also forgets how far each list was revealed *)
clearFiltersResettingPages ==
    /\ searchText' = <<>>
    /\ iterationFilter' = <<>>
    /\ tagsFilter' = <<>>
    /\ assignedToFilter' = <<>>
    /\ budget > 0
    /\ budget' = budget - 1
    /\ timers' = refresh(timers)
    /\ refreshTimeout' = Val(now)
    /\ obs' = Idle
    /\ loadedCounts' = EmptyMap
    /\ ServiceUnchanged /\ RemoteUnchanged
    /\ UNCHANGED <<now, kq, panels, openPanels, commands, remoteTags, currentTags, refreshing>>

clearFilters ==
    /\ searchText' = <<>>
    /\ iterationFilter' = <<>>
    /\ tagsFilter' = <<>>
    /\ assignedToFilter' = <<>>
    /\ FilterOp

(* refresh() called on its own *)
Refresh ==
    /\ FiltersUnchanged
    /\ FilterOp

(* the adoBacklog.refresh command: clearCache, then refreshImmediate *)
RefreshCommand ==
    /\ budget > 0
    /\ budget' = budget - 1
    /\ cache' = EmptyMap
    /\ stateCache' = EmptyMap
    /\ obs' = Observe("refresh", <<>>, Null, 1, FALSE, Dropped(cache, cache'))
    /\ FiltersUnchanged /\ RemoteUnchanged
    /\ refreshing' = TRUE
    /\ UNCHANGED <<now, config, connection, refreshTimeout, timers, kq, panels, openPanels, commands, remoteTags, currentTags, loadedCounts>>

(* a getWorkItem call made for a detail panel, suspended at its await *)
PanelFetch(workItemId, panel) ==
    [op |-> "panelItem", key |-> NumStr(workItemId), stage |-> "sent", ver |-> 0,
     ids |-> <<>>, by |-> "panel", panel |-> panel]

(* the adoBacklog.refreshItem command up to its first await: invalidate,    *)
(* fire, and ask for the item again when openPanels has a panel for it      *)
RefreshItemCommand(workItemId) ==
    /\ budget > 0
    /\ budget' = budget - 1
    /\ cache' = invalidateWorkItemCache(cache, workItemId)
    /\ obs' = Observe("refreshItem", NumStr(workItemId), Null, 1, FALSE,
                      Dropped(cache, cache'))
    /\ fetches' = IF workItemId \in DOMAIN openPanels /\ connection # Null
                  THEN Append(fetches, PanelFetch(workItemId, openPanels[workItemId]))
                  ELSE fetches
    /\ FiltersUnchanged
    /\ UNCHANGED <<now, config, connection, stateCache, refreshTimeout, timers, remoteVer,
                   muts, kq, panels, openPanels, commands, remoteTags, currentTags, refreshing,
                   loadedCounts>>

(* activate: the commands it registers, in the order of registration *)
activate ==
    {"adoBacklog.refresh", "adoBacklog.refreshItem", "adoBacklog.search",
     "adoBacklog.filterByIteration", "adoBacklog.filterByTags",
     "adoBacklog.filterByAssignedTo", "adoBacklog.clearFilters", "adoBacklog.loadMore",
     "adoBacklog.showTeamInfo", "adoBacklog.openItem", "adoBacklog.deleteItem",
     "adoBacklog.changeState", "adoBacklog.createEpic", "adoBacklog.createFeature",
     "adoBacklog.createUserStory", "adoBacklog.createBug",
     "adoBacklog.manageCustomFields", "adoBacklog.configureStateIndicators",
     "adoBacklog.openInBrowser"}

(* onDidChangeConfiguration: loadConfig, then clearCache *)
ConfigChange(cfg) ==
    /\ budget > 0
    /\ budget' = budget - 1
    /\ cfg # config
    /\ config' = cfg
    /\ connection' = loadConfig(cfg, connection)
    /\ cache' = EmptyMap
    /\ stateCache' = EmptyMap
    /\ obs' = Observe("configChange", <<>>, Null, 0, FALSE, Dropped(cache, cache'))
    /\ FiltersUnchanged /\ RemoteUnchanged
    /\ UNCHANGED <<now, refreshTimeout, timers, kq, panels, openPanels, commands, remoteTags, currentTags, refreshing, loadedCounts>>

----------------------------------------------------------------------------
(* AdoService: getEpicsForTeam and getChildWorkItems *)

(* a list of work items, with the number of mutations the remote system had *)
(* applied when the list was read                                            *)
Payload(ver, items) == [ver |-> ver, items |-> items]

(* return []; -- a list that was not read from the remote system *)
EmptyList == [items |-> <<>>]

(* a call made by getChildren, suspended at its first await *)
Fetch(op, key) ==
    [op |-> op, key |-> key, stage |-> "sent", ver |-> 0, ids |-> <<>>, by |-> "tree"]

(* the part of a fetch before its first await: connection guard, key, cache check *)
StartFetch(op, key) ==
    IF connection = Null
    THEN /\ obs' = Observe("noConnection", key, EmptyList, 0, FALSE, {})
         /\ UNCHANGED fetches
    ELSE IF Truthy(getCached(key))
    THEN /\ obs' = Observe("hit", key, getCached(key), 0, FALSE, {})
         /\ UNCHANGED fetches
    ELSE /\ obs' = Observe("miss", key, Null, 0, TRUE, {})
         /\ fetches' = Append(fetches, Fetch(op, key))

(* AdoBacklogProvider.getChildren up to its first await *)
ProviderFetch(op, key) ==
    /\ budget > 0
    /\ budget' = budget - 1
    /\ IF ~isConfigured(config)
       THEN /\ obs' = Observe("notConfigured", key, EmptyList, 0, FALSE, {})
            /\ UNCHANGED fetches
       ELSE StartFetch(op, key)
    /\ ServiceUnchanged /\ FiltersUnchanged
    /\ refreshing' = FALSE
    /\ UNCHANGED <<now, refreshTimeout, timers, remoteVer, muts, kq, panels, openPanels, commands, remoteTags, currentTags, loadedCounts>>

(* getChildren(team element) *)
GetChildrenOfTeam(areaPathName) ==
    ProviderFetch("epics", EpicsCacheKey(areaPathName, getfiltersForService))

(* getChildren(epic or feature element) *)
GetChildrenOfItem(parentId) ==
    ProviderFetch("children", ChildrenCacheKey(parentId, getfiltersForService))

(* child ids taken from every row, the first one too *)
ChildIdsOfAllRows(rows) ==
    LET kept == SelectSeq(rows, LAMBDA rel : rel.target # Undefined)
    IN  [j \in 1..Len(kept) |-> kept[j].target.val]

(* .slice(1).map(rel => rel.target?.id).filter(id => id !== undefined) *)
ChildIds(rows) ==
    LET rest == SubSeq(rows, 2, Len(rows))
        kept == SelectSeq(rest, LAMBDA rel : rel.target # Undefined)
    IN  [j \in 1..Len(kept) |-> kept[j].target.val]

(* the ids a query result leads the fetch to ask the fields of *)
IdsOf(op, result) ==
    IF result = Undefined THEN <<>>
    ELSE IF op = "epics" THEN result.val
    ELSE IF Len(result.val) <= 1 THEN <<>>
    ELSE ChildIds(result.val)

(* a key made at the time of the write from the filters as they are then *)
cacheKeyAtWrite(f) ==
    IF f.op = "epics"
    THEN EpicsCacheKey(CHOOSE a \in AreaPaths : startsWith(f.key, s_epics \o a \o <<"_">>),
                       getfiltersForService)
    ELSE ChildrenCacheKey(CHOOSE p \in ParentIds :
                             startsWith(f.key, s_children \o NumStr(p) \o <<"_">>),
                          getfiltersForService)

(* const cacheKey: made once, before the cache check, and used by every     *)
(* setCache of the call                                                     *)
cacheKey(f) == f.key

(* the answer of queryByWiql arrives; it shows the remote system as it is now *)
FetchWiql(i, result) ==
    LET f == fetches[i]
        ids == IdsOf(f.op, result)
    IN  /\ f.stage = "sent"
        /\ f.op \in {"epics", "children"}
        /\ IF ids = <<>>
           THEN /\ cache' = setCache(cache, cacheKey(f), Payload(remoteVer, <<>>))
                /\ fetches' = Without(fetches, i)
           ELSE /\ fetches' = [fetches EXCEPT ![i].stage = "items", ![i].ids = ids,
                                              ![i].ver = remoteVer]
                /\ UNCHANGED cache
        /\ obs' = Idle
        /\ FiltersUnchanged
        /\ UNCHANGED <<now, config, connection, stateCache, refreshTimeout, timers,
                       remoteVer, muts, budget, kq, panels, openPanels, commands, remoteTags, currentTags, refreshing, loadedCounts>>

(* preFetchChildren: setTimeout(..., 500) *)
preFetchChildren(ts, parentIds) == Append(ts, Timer("prefetch", now, PREFETCH_MS, parentIds))

(* the answer of getWorkItems arrives; workItems is undefined or the items *)
FetchItems(i, workItems) ==
    LET f == fetches[i]
        result2 == IF workItems = Undefined THEN <<>> ELSE workItems.val
    IN  /\ f.stage = "items"
        /\ cache' = setCache(cache, cacheKey(f), Payload(f.ver, result2))
        /\ fetches' = Without(fetches, i)
        /\ timers' = IF f.op = "epics" /\ Len(result2) > 0 /\ Len(result2) <= 10
                      THEN preFetchChildren(timers, result2)
                      ELSE timers
        /\ obs' = Idle
        /\ FiltersUnchanged
        /\ UNCHANGED <<now, config, connection, stateCache, refreshTimeout,
                       remoteVer, muts, budget, kq, panels, openPanels, commands, remoteTags, currentTags, refreshing, loadedCounts>>

(* a catch that shows every failure to the user *)
CaughtShown(f) == Observe("caught", f.key, EmptyList, 0, TRUE, {})

(* the catch a rejected call ends in: that of getChildren, which shows the  *)
(* message and returns [], or the empty catch of preFetchChildren           *)
Caught(f) ==
    IF f.by = "tree"
    THEN Observe("caught", f.key, EmptyList, 0, TRUE, {})
    ELSE Observe("swallowed", f.key, Null, 0, TRUE, {})

(* a failure that is stored as an empty result *)
FetchFailCachingEmpty(i) ==
    /\ fetches[i].op \in {"epics", "children"}
    /\ fetches' = Without(fetches, i)
    /\ cache' = setCache(cache, cacheKey(fetches[i]), Payload(remoteVer, <<>>))
    /\ obs' = Caught(fetches[i])
    /\ FiltersUnchanged
    /\ UNCHANGED <<now, config, connection, stateCache, refreshTimeout, timers, remoteVer,
                   muts, budget, kq, panels, openPanels, commands, remoteTags, currentTags,
                   refreshing, loadedCounts>>

(* a remote call of fetch i rejects, and the call ends in its catch *)
FetchFail(i) ==
    /\ fetches[i].op \in {"epics", "children"}
    /\ fetches' = Without(fetches, i)
    /\ obs' = Caught(fetches[i])
    /\ ServiceUnchanged /\ FiltersUnchanged
    /\ UNCHANGED <<now, refreshTimeout, timers, remoteVer, muts, budget, kq, panels, openPanels, commands, remoteTags, currentTags, refreshing, loadedCounts>>

(* getBatchChildWorkItems: the parents with no valid entry under children_<id> *)
UncachedParents(parentIds) ==
    SelectSeq(parentIds, LAMBDA p : ~Truthy(getCached(BatchCacheKey(p))))

(* the getChildWorkItems(parentId) calls of a batch that reach the remote system *)
BatchFetches(parentIds) ==
    LET missed == SelectSeq(UncachedParents(parentIds),
                            LAMBDA p : ~Truthy(getCached(ChildrenCacheKey(p, Undefined))))
    IN  [j \in 1..Len(missed) |->
            [Fetch("children", ChildrenCacheKey(missed[j], Undefined)) EXCEPT !.by = "prefetch"]]

(* the callback of preFetchChildren's setTimeout: getBatchChildWorkItems *)
PrefetchFire(i) ==
    /\ FirstDue(i)
    /\ timers[i].kind = "prefetch"
    /\ timers' = Without(timers, i)
    /\ fetches' = IF connection = Null THEN fetches
                   ELSE fetches \o BatchFetches(timers[i].ids)
    /\ obs' = Idle
    /\ ServiceUnchanged /\ FiltersUnchanged
    /\ UNCHANGED <<now, refreshTimeout, remoteVer, muts, budget, kq, panels, openPanels, commands, remoteTags, currentTags, refreshing, loadedCounts>>

----------------------------------------------------------------------------
(* AdoService: getAvailableStates *)

FallbackStates(currentState) ==
    <<currentState, "New", "Active", "Resolved", "Closed", "Removed">>

(* getAvailableStates up to its first await *)
GetAvailableStates(workItemType) ==
    /\ budget > 0
    /\ budget' = budget - 1
    /\ IF connection # Null /\ workItemType \notin DOMAIN stateCache
       THEN fetches' = Append(fetches, Fetch("states", workItemType))
       ELSE UNCHANGED fetches
    /\ obs' = Idle
    /\ ServiceUnchanged /\ FiltersUnchanged
    /\ UNCHANGED <<now, refreshTimeout, timers, remoteVer, muts, kq, panels, openPanels, commands, remoteTags, currentTags, refreshing, loadedCounts>>

(* getWorkItemType answers with the states, or it fails and the fallback is kept *)
StatesAnswer(i, ok) ==
    /\ fetches[i].op = "states"
    /\ stateCache' = MapSet(stateCache, fetches[i].key,
                            IF ok THEN <<"To Do", "Done">> ELSE FallbackStates("To Do"))
    /\ fetches' = Without(fetches, i)
    /\ obs' = Idle
    /\ FiltersUnchanged
    /\ UNCHANGED <<now, config, connection, cache, refreshTimeout, timers, remoteVer,
                   muts, budget, kq, panels, openPanels, commands, remoteTags, currentTags, refreshing, loadedCounts>>

----------------------------------------------------------------------------
(* AdoService: getWorkItemTypeFields and getAllTeamMembers *)

(* getWorkItemTypeFields up to its first await *)
GetWorkItemTypeFields(workItemType) ==
    /\ budget > 0
    /\ budget' = budget - 1
    /\ IF connection # Null /\ ~Truthy(getCached(WitFieldsCacheKey(workItemType)))
       THEN fetches' = Append(fetches, Fetch("fields", WitFieldsCacheKey(workItemType)))
       ELSE UNCHANGED fetches
    /\ obs' = Idle
    /\ ServiceUnchanged /\ FiltersUnchanged
    /\ UNCHANGED <<now, refreshTimeout, timers, remoteVer, muts, kq, panels, openPanels, commands, remoteTags, currentTags, refreshing, loadedCounts>>

(* getAllTeamMembers up to its first await; it does not look at the connection *)
GetAllTeamMembers ==
    /\ budget > 0
    /\ budget' = budget - 1
    /\ IF ~Truthy(getCached(s_allTeamMembers))
       THEN fetches' = Append(fetches, Fetch("members", s_allTeamMembers))
       ELSE UNCHANGED fetches
    /\ obs' = Idle
    /\ ServiceUnchanged /\ FiltersUnchanged
    /\ UNCHANGED <<now, refreshTimeout, timers, remoteVer, muts, kq, panels, openPanels, commands, remoteTags, currentTags, refreshing, loadedCounts>>

(* the remote answer of one of the two arrives: the fields are stored unless *)
(* the call failed; the members are stored in any case, failed teams skipped *)
AuxAnswer(i, ok) ==
    /\ fetches[i].op \in {"fields", "members"}
    /\ cache' = IF ok \/ fetches[i].op = "members"
                 THEN setCache(cache, fetches[i].key, Payload(remoteVer, <<>>))
                 ELSE cache
    /\ fetches' = Without(fetches, i)
    /\ obs' = Idle
    /\ FiltersUnchanged
    /\ UNCHANGED <<now, config, connection, stateCache, refreshTimeout, timers,
                   remoteVer, muts, budget, kq, panels, openPanels, commands, remoteTags, currentTags, refreshing, loadedCounts>>

----------------------------------------------------------------------------
(* The System.Tags field and the patch document *)

s_tagSeparator == <<";", " ">>

(* String.prototype.split with a non-empty separator *)
RECURSIVE Split(_, _)
Split(s, sep) ==
    LET hits == {i \in 1..(Len(s) - Len(sep) + 1) : SubSeq(s, i, i + Len(sep) - 1) = sep}
    IN  IF hits = {} THEN <<s>>
        ELSE LET first == CHOOSE i \in hits : \A j \in hits : i <= j
             IN  <<SubSeq(s, 1, first - 1)>>
                 \o Split(SubSeq(s, first + Len(sep), Len(s)), sep)

RECURSIVE trimStart(_)
trimStart(s) ==
    IF s # <<>> /\ Head(s) = " " THEN trimStart(Tail(s)) ELSE s

RECURSIVE trimEnd(_)
trimEnd(s) ==
    IF s # <<>> /\ s[Len(s)] = " " THEN trimEnd(SubSeq(s, 1, Len(s) - 1)) ELSE s

trim(s) == trimEnd(trimStart(s))

(* getWorkItemHtml: the tags of a work item, from its System.Tags field *)
ParseTags(field) ==
    IF field = <<>> THEN <<>>
    ELSE SelectSeq(Split(field, s_tagSeparator), LAMBDA t : trim(t) # <<>>)

Range(seq) == {seq[i] : i \in 1..Len(seq)}

(* a patch document whose every operation is 'add' *)
patchDocumentAdding(fields) ==
    [fieldName \in DOMAIN fields |->
        [op |-> "add", path |-> <<"/fields/", fieldName>>, value |-> fields[fieldName]]]

(* updateWorkItem: one operation per field, 'replace' for System.Tags *)
patchDocument(fields) ==
    [fieldName \in DOMAIN fields |->
        [op |-> IF fieldName = "System.Tags" THEN "replace" ELSE "add",
         path |-> <<"/fields/", fieldName>>,
         value |-> fields[fieldName]]]

(* the remote system applies an operation on System.Tags: 'replace' sets the *)
(* field, 'add' appends the tags the field does not have yet                 *)
PatchedTags(field, patch) ==
    IF "System.Tags" \notin DOMAIN patch THEN field
    ELSE IF patch["System.Tags"].op = "replace" THEN patch["System.Tags"].value
    ELSE LET had == ParseTags(field)
             new == SelectSeq(ParseTags(patch["System.Tags"].value),
                              LAMBDA t : t \notin Range(had))
         IN  Join(had \o new, s_tagSeparator)

----------------------------------------------------------------------------
(* AdoService: mutations *)

Mutation(kind, id) ==
    [kind |-> kind, id |-> id, stage |-> IF kind = "unlink" THEN "reading" ELSE "sent"]

(* updateWorkItem, deleteWorkItem, createWorkItem, removeParentLink,       *)
(* addParentLink up to the first await                                      *)
MutStart(kind, id) ==
    /\ budget > 0
    /\ budget' = budget - 1
    /\ IF connection = Null
       THEN /\ obs' = Observe("rejected", <<>>, Null, 0, FALSE, {})
            /\ UNCHANGED muts
       ELSE /\ obs' = Idle
            /\ muts' = Append(muts, Mutation(kind, id))
    /\ ServiceUnchanged /\ FiltersUnchanged
    /\ UNCHANGED <<now, refreshTimeout, timers, remoteVer, fetches, kq, panels, openPanels, commands, remoteTags, currentTags, refreshing, loadedCounts>>

(* the event a command handler fires once its mutation has resolved *)
FiredAfter(kind) == IF kind \in {"unlink", "relink"} THEN 0 ELSE 1

(* the method invalidates, then resolves *)
Resolve(i) ==
    /\ muts' = Without(muts, i)
    /\ cache' = invalidateWorkItemCache(cache, muts[i].id)
    /\ obs' = Observe("resolved", <<>>, Null, FiredAfter(muts[i].kind), FALSE,
                      Dropped(cache, cache'))

(* removeParentLink: the relations of the item arrive *)
UnlinkRead(i, hasParent) ==
    /\ muts[i].stage = "reading"
    /\ IF hasParent
       THEN /\ muts' = [muts EXCEPT ![i].stage = "sent"]
            /\ obs' = Idle
            /\ UNCHANGED cache
       ELSE Resolve(i)
    /\ FiltersUnchanged
    /\ UNCHANGED <<now, config, connection, stateCache, refreshTimeout, timers,
                   remoteVer, fetches, budget, kq, panels, openPanels, commands, remoteTags, currentTags, refreshing, loadedCounts>>

(* the remote system has applied the patch, the create or the delete and its *)
(* answer arrives                                                            *)
MutResolve(i) ==
    /\ muts[i].stage = "sent"
    /\ remoteVer' = remoteVer + 1
    /\ remoteTags' = IF "patch" \in DOMAIN muts[i]
                     THEN PatchedTags(remoteTags, muts[i].patch)
                     ELSE remoteTags
    /\ Resolve(i)
    /\ FiltersUnchanged
    /\ UNCHANGED <<now, config, connection, stateCache, refreshTimeout, timers,
                   fetches, budget, kq, panels, openPanels, commands, currentTags, refreshing, loadedCounts>>

(* a failure after which the method invalidates all the same *)
MutFailInvalidating(i) ==
    /\ muts' = Without(muts, i)
    /\ cache' = invalidateWorkItemCache(cache, muts[i].id)
    /\ obs' = Observe("failed", <<>>, Null, 0, FALSE, {})
    /\ FiltersUnchanged
    /\ UNCHANGED <<now, config, connection, stateCache, refreshTimeout, timers, remoteVer,
                   fetches, budget, kq, panels, openPanels, commands, remoteTags,
                   currentTags, refreshing, loadedCounts>>

(* the remote call rejects: the method throws before it invalidates *)
MutFail(i) ==
    /\ muts' = Without(muts, i)
    /\ obs' = Observe("failed", <<>>, Null, 0, FALSE, {})
    /\ ServiceUnchanged /\ FiltersUnchanged
    /\ UNCHANGED <<now, refreshTimeout, timers, remoteVer, fetches, budget, kq, panels, openPanels, commands, remoteTags, currentTags, refreshing, loadedCounts>>

----------------------------------------------------------------------------
(* The extension: the service, the provider and the remote system together *)

KqIdle == [pc |-> "idle"]

InitProvider ==
    /\ searchText = <<>>
    /\ iterationFilter = <<>>
    /\ tagsFilter = <<>>
    /\ assignedToFilter = <<>>
    /\ refreshTimeout = Undefined

(* the state after activate(), with a complete configuration; c and sc are *)
(* the contents of the two caches                                           *)
InitState(ops, c, sc) ==
    /\ now = 0
    /\ config = ConfiguredFor(1)
    /\ connection = loadConfig(config, Null)
    /\ cache = c
    /\ stateCache = sc
    /\ InitProvider
    /\ timers = <<>>
    /\ remoteVer = 0
    /\ fetches = <<>>
    /\ muts = <<>>
    /\ budget = ops
    /\ obs = Idle
    /\ kq = KqIdle
    /\ remoteTags = <<>>
    /\ currentTags = Undefined
    /\ panels = <<>>
    /\ openPanels = EmptyMap
    /\ commands = activate
    /\ refreshing = FALSE
    /\ loadedCounts = EmptyMap

InitWith(ops) == InitState(ops, EmptyMap, EmptyMap)

Init == InitWith(MaxOps)

TimerStep ==
    \/ \E i \in 1..Len(timers) : AdvanceToTimer(i)
    \/ \E i \in 1..Len(timers) : DebounceFire(i)
    \/ \E i \in 1..Len(timers) : PrefetchFire(i)

FetchStep ==
    \/ \E a \in AreaPaths : GetChildrenOfTeam(a)
    \/ \E p \in ParentIds : GetChildrenOfItem(p)
    \/ \E i \in 1..Len(fetches) :
          \E r \in Optional(IF fetches[i].op = "epics" THEN EpicIdLists ELSE RelationRows) :
             FetchWiql(i, r)
    \/ \E i \in 1..Len(fetches) : \E w \in Optional({fetches[i].ids}) : FetchItems(i, w)
    \/ \E i \in 1..Len(fetches) : FetchFail(i)

MutationStep ==
    \/ \E k \in MutationKinds, id \in ParentIds : MutStart(k, id)
    \/ \E i \in 1..Len(muts), hasParent \in BOOLEAN : UnlinkRead(i, hasParent)
    \/ \E i \in 1..Len(muts) : MutResolve(i)
    \/ \E i \in 1..Len(muts) : MutFail(i)

FilterStep ==
    \/ \E text \in TextInputs : setSearchText(text)
    \/ \E text \in TextInputs : setIterationFilter(text)
    \/ \E tags \in TagInputs : setTagsFilter(tags)
    \/ \E text \in TextInputs : setAssignedToFilter(text)
    \/ clearFilters
    \/ Refresh

Next ==
    \/ \E d \in Delays : Advance(d)
    \/ TimerStep
    \/ FilterStep
    \/ RefreshCommand
    \/ \E id \in ParentIds : RefreshItemCommand(id)
    \/ \E cfg \in Configs : ConfigChange(cfg)
    \/ FetchStep
    \/ \E t \in WorkItemTypes : GetAvailableStates(t)
    \/ \E i \in 1..Len(fetches), ok \in BOOLEAN : StatesAnswer(i, ok)
    \/ MutationStep

Spec == Init /\ [][Next]_vars

----------------------------------------------------------------------------
(* Browsing the tree over a long time: expansions and waits around the time *)
(* to live of an entry                                                      *)

BrowseDelays == {CACHE_TTL - 1, CACHE_TTL}

InitBrowse == InitWith(MaxBrowseOps)

NextBrowse ==
    \/ \E d \in BrowseDelays : Advance(d)
    \/ \E i \in 1..Len(timers) : AdvanceToTimer(i)
    \/ \E i \in 1..Len(timers) : PrefetchFire(i)
    \/ FetchStep

SpecBrowse == InitBrowse /\ [][NextBrowse]_vars

----------------------------------------------------------------------------
(* Browsing the tree while the tag filter is set and cleared *)

InitFilter == InitWith(MaxFilterOps)

NextFilter ==
    \/ \E tags \in TagInputs \ {<<>>} : setTagsFilter(tags)
    \/ clearFilters
    \/ TimerStep
    \/ \E a \in AreaPaths : GetChildrenOfTeam(a)
    \/ \E i \in 1..Len(fetches) :
          \E r \in Optional(IF fetches[i].op = "epics" THEN EpicIdLists ELSE RelationRows) :
             FetchWiql(i, r)
    \/ \E i \in 1..Len(fetches) : \E w \in Optional({fetches[i].ids}) : FetchItems(i, w)

SpecFilter == InitFilter /\ [][NextFilter]_vars

----------------------------------------------------------------------------
(* Mutations on a warm cache *)

(* keys of entries earlier browsing can have left: other areas, other      *)
(* parents, filtered and unfiltered variants, and the two auxiliary scopes *)
WarmKeys ==
    {EpicsCacheKey(<<"A">>, FiltersOf(<<>>, <<>>, <<>>, <<>>)),
     EpicsCacheKey(<<"B">>, FiltersOf(<<>>, <<>>, << <<"u">> >>, <<>>)),
     ChildrenCacheKey(1, FiltersOf(<<>>, <<>>, <<>>, <<>>)),
     ChildrenCacheKey(1, Undefined),
     ChildrenCacheKey(5, FiltersOf(<<"s">>, <<>>, <<>>, <<>>)),
     s_allTeamMembers,
     WitFieldsCacheKey(s_Epic)}

WarmCaches ==
    {[k \in K |-> [data |-> Payload(0, <<>>), timestamp |-> 0]] : K \in SUBSET WarmKeys}

WarmStateCaches == {EmptyMap, MapSet(EmptyMap, s_Epic, <<"To Do", "Done">>)}

InitInv ==
    \E c \in WarmCaches, sc \in WarmStateCaches : InitState(MaxInvOps, c, sc)

NextInv ==
    \/ MutationStep
    \/ \E id \in ParentIds : RefreshItemCommand(id)
    \/ \E t \in WorkItemTypes : GetWorkItemTypeFields(t)
    \/ GetAllTeamMembers
    \/ \E i \in 1..Len(fetches), ok \in BOOLEAN : AuxAnswer(i, ok)

SpecInv == InitInv /\ [][NextInv]_vars

----------------------------------------------------------------------------
(* The cache keys, as functions of the scope and of the filters *)

KeyAreas == {<<"A">>, <<"A", "_", "B">>}
KeyParents == {1, 12}
KeyTexts == {<<>>, <<"a">>}
KeyTags == {<<>>, << <<"u">> >>, << <<"u">>, <<"v">> >>, << <<"u", "\"", ",", "\"", "v">> >>}

(* what a caller can pass as filters: nothing, or the provider's object *)
FilterArgs ==
    {Undefined} \cup {FiltersOf(st, it, tg, at) :
                         st \in KeyTexts, it \in KeyTexts, tg \in KeyTags, at \in KeyTexts}

(* the scope and the two filter sets of a key computation still to be done *)
KeyInputs(area, parent, f1, f2) ==
    [pc |-> "inputs", area |-> area, parent |-> parent, f1 |-> f1, f2 |-> f2]

(* the keys getEpicsForTeam and getChildWorkItems build for two filter sets *)
KeysOfService ==
    /\ kq.pc = "inputs"
    /\ kq' = [pc |-> "service", f1 |-> kq.f1, f2 |-> kq.f2,
              epics1 |-> EpicsCacheKey(kq.area, kq.f1),
              epics2 |-> EpicsCacheKey(kq.area, kq.f2),
              children1 |-> ChildrenCacheKey(kq.parent, kq.f1),
              children2 |-> ChildrenCacheKey(kq.parent, kq.f2)]
    /\ ServiceUnchanged /\ FiltersUnchanged /\ RemoteUnchanged
    /\ UNCHANGED <<now, refreshTimeout, timers, obs, budget, remoteTags, currentTags,
                   refreshing, loadedCounts, panels, openPanels, commands>>

(* the keys of one parent's children: the one getChildren asks for, the one *)
(* the pre-fetch stores under, the one getBatchChildWorkItems looks up      *)
KeysOfTree ==
    /\ kq.pc = "inputs"
    /\ kq' = [pc |-> "tree", filters |-> getfiltersForService,
              tree |-> ChildrenCacheKey(kq.parent, getfiltersForService),
              prefetch |-> ChildrenCacheKey(kq.parent, Undefined),
              batch |-> BatchCacheKey(kq.parent)]
    /\ ServiceUnchanged /\ FiltersUnchanged /\ RemoteUnchanged
    /\ UNCHANGED <<now, refreshTimeout, timers, obs, budget, remoteTags, currentTags,
                   refreshing, loadedCounts, panels, openPanels, commands>>

InitKeys ==
    /\ now = 0
    /\ config = ConfiguredFor(1)
    /\ connection = loadConfig(config, Null)
    /\ cache = EmptyMap
    /\ stateCache = EmptyMap
    /\ searchText \in KeyTexts
    /\ iterationFilter = <<>>
    /\ tagsFilter \in TagInputs
    /\ assignedToFilter = <<>>
    /\ refreshTimeout = Undefined
    /\ timers = <<>>
    /\ remoteVer = 0
    /\ fetches = <<>>
    /\ muts = <<>>
    /\ budget = 0
    /\ obs = Idle
    /\ refreshing = FALSE
    /\ loadedCounts = EmptyMap
    /\ remoteTags = <<>>
    /\ currentTags = Undefined
    /\ panels = <<>>
    /\ openPanels = EmptyMap
    /\ commands = activate
    /\ kq \in {KeyInputs(area, parent, f1, f2) :
                  area \in KeyAreas, parent \in KeyParents,
                  f1 \in FilterArgs, f2 \in FilterArgs}

NextKeys ==
    \/ KeysOfService
    \/ KeysOfTree

SpecKeys == InitKeys /\ [][NextKeys]_vars

----------------------------------------------------------------------------
(* Properties of the TTL cache *)

(* the step was a getEpicsForTeam / getChildWorkItems call that read the cache *)
IsRead(o) == o.op \in {"hit", "miss"}

(* C1: a read of a key at a time less than 5 minutes after the value was    *)
(* stored returns that value, a read at 5 minutes or later finds the key    *)
(* absent; every entry written carries the time of the write, so a later    *)
(* setCache restarts the window; and neither a read nor the passing of time *)
(* changes the cache (entries expire at read time only, they are not swept) *)
C1_TtlExpiry ==
    /\ [](obs.op = "hit" =>
             /\ obs.key \in DOMAIN cache
             /\ now < cache[obs.key].timestamp + 5 * 60 * 1000
             /\ obs.ret = cache[obs.key].data)
    /\ [](obs.op = "miss" =>
             \/ obs.key \notin DOMAIN cache
             \/ now >= cache[obs.key].timestamp + 5 * 60 * 1000)
    /\ [][\A k \in DOMAIN cache' :
             (k \notin DOMAIN cache \/ cache'[k] # cache[k]) => cache'[k].timestamp = now']_vars
    /\ [][(IsRead(obs') \/ now' # now) => cache' = cache]_vars

(* a read exactly 5 minutes after the write misses, the entry still stored *)
C1_Witness ==
    /\ obs.op = "miss"
    /\ obs.key \in DOMAIN cache
    /\ now = cache[obs.key].timestamp + 5 * 60 * 1000

----------------------------------------------------------------------------
(* Properties of the invalidation *)

(* the key belongs to a work-item scope: the children of a parent, the epics *)
(* of an area                                                                *)
IsWorkItemKey(key) == startsWith(key, s_children) \/ startsWith(key, s_epics)

(* C2: right after a successful update, delete, create, unlink or relink of  *)
(* an item, the cache holds no entry whose key starts with children_ or      *)
(* epics_, whatever the parent, the area or the filters of the entry         *)
C2_InvalidationComplete ==
    [][obs'.op = "resolved" => \A key \in DOMAIN cache' : ~IsWorkItemKey(key)]_vars

(* a mutation of item 1 has resolved and dropped the children of item 5 and *)
(* the filtered epics of area B                                             *)
C2_Witness ==
    /\ obs.op = "resolved"
    /\ ChildrenCacheKey(5, FiltersOf(<<"s">>, <<>>, <<>>, <<>>)) \in obs.dropped
    /\ EpicsCacheKey(<<"B">>, FiltersOf(<<>>, <<>>, << <<"u">> >>, <<>>)) \in obs.dropped
    /\ ChildrenCacheKey(1, Undefined) \in obs.dropped

(* C4: invalidateWorkItemCache leaves every entry whose key starts neither   *)
(* with children_ nor with epics_ as it was, payload and timestamp, among    *)
(* them allTeamMembers and witFields_<type>, and leaves the state cache as   *)
(* it was                                                                    *)
C4_InvalidationFrame ==
    [][obs'.op \in {"resolved", "refreshItem"} =>
          /\ \A key \in DOMAIN cache :
                ~IsWorkItemKey(key) => key \in DOMAIN cache' /\ cache'[key] = cache[key]
          /\ stateCache' = stateCache]_vars

(* an invalidation has dropped entries while the members, the fields of a   *)
(* type and the states of a type were cached, and they still are            *)
C4_Witness ==
    /\ obs.op = "resolved"
    /\ obs.dropped # {}
    /\ s_allTeamMembers \in DOMAIN cache
    /\ WitFieldsCacheKey(s_Epic) \in DOMAIN cache
    /\ s_Epic \in DOMAIN stateCache

----------------------------------------------------------------------------
(* Properties of fetches racing with mutations and with the refresh command *)

(* C3: a fetch started after a mutation has resolved never returns data that *)
(* was read from the remote system before that mutation                      *)
C3_FreshAfterMutation ==
    obs.op = "hit" => obs.ret.ver = remoteVer

(* C8: every fetch the tree starts in answer to the event of the explicit    *)
(* refresh command misses the cache and queries the remote system            *)
C8_RefreshForcesRemote ==
    [][(refreshing /\ IsRead(obs')) => (obs'.op = "miss" /\ obs'.remote)]_vars

----------------------------------------------------------------------------
(* Properties of the filters and of the debounce *)

Removes(c1, c2) == ~(DOMAIN c1 \subseteq DOMAIN c2)

DebounceTimers(ts) == SelectSeq(ts, LAMBDA t : t.kind = "debounce")

(* the step is a call of refresh(): by a setter, by clearFilters, or direct *)
IsRefreshCall == FilterStep

(* C9, as stated: refresh() and the filter operations leave both caches as   *)
(* they are, and entries are removed only by the explicit refresh command,   *)
(* a configuration change and mutations                                      *)
C9_OnlyRefreshConfigMutations ==
    /\ [][(IsRefreshCall \/ obs'.op = "debounce") =>
             (cache' = cache /\ stateCache' = stateCache)]_vars
    /\ [][Removes(cache, cache') => obs'.op \in {"refresh", "configChange", "resolved"}]_vars

(* C9, amended: refresh() and the filter operations leave both caches as     *)
(* they are, and entries are removed only by the explicit refresh command,   *)
(* the refresh-item command, a configuration change and mutations            *)
C9_CachePreserving ==
    /\ [][(IsRefreshCall \/ obs'.op = "debounce") =>
             (cache' = cache /\ stateCache' = stateCache)]_vars
    /\ [][Removes(cache, cache') =>
             obs'.op \in {"refresh", "refreshItem", "configChange", "resolved"}]_vars

(* a filter operation was done after an entry was stored, the entry is still *)
(* there and the debounce timer of the operation is pending                  *)
C9_Witness ==
    /\ refreshTimeout # Undefined
    /\ \E key \in DOMAIN cache : cache[key].timestamp < refreshTimeout.val
    /\ \E i \in 1..Len(timers) :
          timers[i].kind = "debounce" /\ timers[i].armed = refreshTimeout.val

(* C10: at most one debounce timer is pending, it is the one armed by the    *)
(* last call of refresh() and is due 300 ms after that call; every call      *)
(* replaces the pending timer by its own; a pending timer goes away only by  *)
(* firing or by a new call; the event fires 300 ms after the last call and   *)
(* leaves no debounce timer behind                                           *)
C10_Debounce ==
    /\ [](Len(DebounceTimers(timers)) <= 1)
    /\ [](\A i \in 1..Len(timers) :
             timers[i].kind = "debounce" =>
                /\ refreshTimeout = Val(timers[i].armed)
                /\ timers[i].deadline = timers[i].armed + 300
                /\ now <= timers[i].deadline)
    /\ [][IsRefreshCall =>
             /\ Len(DebounceTimers(timers')) = 1
             /\ DebounceTimers(timers')[1].armed = now
             /\ refreshTimeout' = Val(now)]_vars
    /\ [][DebounceTimers(timers') # DebounceTimers(timers) =>
             (IsRefreshCall \/ obs'.op = "debounce")]_vars
    /\ [][obs'.op = "debounce" =>
             /\ now' = refreshTimeout.val + 300
             /\ DebounceTimers(timers) # <<>>
             /\ DebounceTimers(timers') = <<>>]_vars

(* the event of a burst fires 300 ms after a call that was not the first *)
C10_Witness ==
    /\ obs.op = "debounce"
    /\ refreshTimeout.val > 0
    /\ now = refreshTimeout.val + 300

----------------------------------------------------------------------------
(* Properties of the cache keys *)

NoFilterFields ==
    [searchText |-> Undefined, iteration |-> Undefined, tags |-> Undefined,
     assignedTo |-> Undefined]

(* the four fields of a filters argument, a missing argument having none *)
FieldsOf(filters) == IF filters = Undefined THEN NoFilterFields ELSE filters

(* C5: for one scope, the keys built for two filter sets are equal if and    *)
(* only if the two sets are equal field by field, two sets with no filter    *)
(* at all included                                                           *)
C5_KeyDeterminism ==
    kq.pc = "service" =>
       /\ (kq.epics1 = kq.epics2) <=> (FieldsOf(kq.f1) = FieldsOf(kq.f2))
       /\ (kq.children1 = kq.children2) <=> (FieldsOf(kq.f1) = FieldsOf(kq.f2))

(* C6: with no filter active, the key the tree asks a parent's children      *)
(* under is the key of a fetch called without a filters argument, the one    *)
(* the pre-fetch stores its result under                                     *)
C6_UnfilteredKey ==
    (kq.pc = "tree" /\ kq.filters = NoFilterFields) => kq.tree = kq.prefetch

(* the key of area A's epics when the tree has no filter active *)
UnfilteredEpicsOfA == <<"e", "p", "i", "c", "s", "_", "A", "_", "{", "}">>

Warm(key) == key \in DOMAIN cache /\ now - cache[key].timestamp < 5 * 60 * 1000

IsTeamExpansion(o) == IsRead(o) /\ startsWith(o.key, s_epics)

NoFilterActive ==
    /\ searchText = <<>>
    /\ iterationFilter = <<>>
    /\ tagsFilter = <<>>
    /\ assignedToFilter = <<>>

(* C7: with the unfiltered epics of an area cached and within their time to  *)
(* live and no other epics entry cached, an expansion of the area under a    *)
(* tag filter misses, queries the remote system under another key and leaves *)
(* the cache as it is; setting and clearing the filter leave the cache as it *)
(* is; with the filters cleared an expansion returns the cached epics and    *)
(* starts no remote call                                                     *)
C7_FilterScenario ==
    /\ [][(/\ tagsFilter # <<>>
           /\ Warm(UnfilteredEpicsOfA)
           /\ \A key \in DOMAIN cache :
                 startsWith(key, s_epics) => key = UnfilteredEpicsOfA
           /\ IsTeamExpansion(obs')) =>
             /\ obs'.op = "miss"
             /\ obs'.remote
             /\ obs'.key # UnfilteredEpicsOfA
             /\ fetches' = Append(fetches, Fetch("epics", obs'.key))
             /\ cache' = cache]_vars
    /\ [][tagsFilter' # tagsFilter => cache' = cache]_vars
    /\ [][(NoFilterActive /\ Warm(UnfilteredEpicsOfA) /\ IsTeamExpansion(obs')) =>
             /\ obs'.op = "hit"
             /\ obs'.ret = cache[UnfilteredEpicsOfA].data
             /\ ~obs'.remote
             /\ fetches' = fetches]_vars

(* the filters are cleared and an expansion is served from the unfiltered    *)
(* entry, which is older than the entry a filtered expansion has stored      *)
C7_Witness ==
    /\ obs.op = "hit"
    /\ obs.key = UnfilteredEpicsOfA
    /\ NoFilterActive
    /\ \E key \in DOMAIN cache :
          /\ startsWith(key, s_epics)
          /\ key # UnfilteredEpicsOfA
          /\ cache[UnfilteredEpicsOfA].timestamp < cache[key].timestamp

----------------------------------------------------------------------------
(* Properties of the configuration and of failures *)

(* a remote call is started by the step *)
StartsRemoteCall == Len(fetches') > Len(fetches) \/ Len(muts') > Len(muts)

(* C11: a change of the configuration drops every cache entry and every      *)
(* cached state list, and no later operation uses the connection made for    *)
(* the previous configuration                                                *)
C11_ConfigChangeDropsAll ==
    /\ [][obs'.op = "configChange" => (cache' = EmptyMap /\ stateCache' = EmptyMap)]_vars
    /\ [][StartsRemoteCall => connection = Val(config.id)]_vars

(* the outcome of a call that rejects with a message *)
Rejected == [rejected |-> TRUE]

(* C12: when a remote call of a fetch made for the tree fails, getChildren   *)
(* rejects; it does not return an empty list                                 *)
C12_FailureRejects ==
    obs.op = "caught" => obs.ret = Rejected

(* the fetches the step has started *)
Started == SubSeq(fetches', Len(fetches) + 1, Len(fetches'))

(* C13: while the organization URL, the token or the project is missing, no *)
(* read of epics, children or fields starts a remote call, and the tree gets *)
(* an empty list                                                             *)
C13_NotConfiguredReadsEmpty ==
    /\ [][~isConfigured(config) =>
             \A j \in 1..Len(Started) : Started[j].op \notin {"epics", "children", "fields"}]_vars
    /\ [](obs.op = "notConfigured" => obs.ret = EmptyList)

----------------------------------------------------------------------------
(* AdoBacklogProvider: pagination *)

PAGE_SIZE == 50

s_team    == <<"t", "e", "a", "m", "_">>
s_epic    == <<"e", "p", "i", "c", "_">>
s_feature == <<"f", "e", "a", "t", "u", "r", "e", "_">>

(* 'team_' + element.teamName, 'epic_' + id, 'feature_' + id *)
TeamKey(teamName) == s_team \o teamName
EpicKey(id) == s_epic \o NumStr(id)
FeatureKey(id) == s_feature \o NumStr(id)

(* a count that starts from nothing revealed *)
LoadedCountFromZero(counts, parentKey) ==
    IF parentKey \in DOMAIN counts THEN counts[parentKey] ELSE 0

(* this.loadedCounts.get(parentKey) || PAGE_SIZE *)
LoadedCount(counts, parentKey) ==
    IF parentKey \in DOMAIN counts /\ counts[parentKey] # 0
    THEN counts[parentKey]
    ELSE PAGE_SIZE

(* the parent keys the load-more items of the tree carry *)
ParentKeys == {TeamKey(<<"A">>), EpicKey(1), FeatureKey(1)}

(* a loadMore that goes through the debounced refresh() *)
LoadMoreDebounced(parentKey) ==
    /\ budget > 0
    /\ budget' = budget - 1
    /\ loadedCounts' = MapSet(loadedCounts, parentKey,
                              LoadedCount(loadedCounts, parentKey) + PAGE_SIZE)
    /\ timers' = refresh(timers)
    /\ refreshTimeout' = Val(now)
    /\ obs' = Observe("loadMore", parentKey, Null, 0, FALSE, {})
    /\ ServiceUnchanged /\ FiltersUnchanged /\ RemoteUnchanged
    /\ UNCHANGED <<now, kq, panels, openPanels, commands, remoteTags, currentTags, refreshing>>

(* the adoBacklog.loadMore command: loadMore(parentKey) *)
LoadMore(parentKey) ==
    /\ budget > 0
    /\ budget' = budget - 1
    /\ loadedCounts' = MapSet(loadedCounts, parentKey,
                              LoadedCount(loadedCounts, parentKey) + PAGE_SIZE)
    /\ obs' = Observe("loadMore", parentKey, Null, 1, FALSE, {})
    /\ ServiceUnchanged /\ FiltersUnchanged /\ RemoteUnchanged
    /\ UNCHANGED <<now, refreshTimeout, timers, kq, panels, openPanels, commands, remoteTags, currentTags, refreshing>>

InitPage == InitWith(MaxPageOps)

NextPage ==
    \/ \E key \in ParentKeys : LoadMore(key)
    \/ FilterStep
    \/ \E i \in 1..Len(timers) : AdvanceToTimer(i)
    \/ \E i \in 1..Len(timers) : DebounceFire(i)
    \/ RefreshCommand
    \/ \E cfg \in Configs : ConfigChange(cfg)
    \/ MutationStep

SpecPage == InitPage /\ [][NextPage]_vars

----------------------------------------------------------------------------
(* Properties of the pagination counters *)

(* the revealed count of a parent key under given counters *)
RevealedIn(counts, parentKey) ==
    IF parentKey \in DOMAIN counts THEN counts[parentKey] ELSE 50

Revealed(parentKey) == RevealedIn(loadedCounts, parentKey)

(* C14: the revealed count of every parent key is 50 at the start, is always *)
(* a positive multiple of 50, never decreases, and a loadMore of a key adds  *)
(* exactly 50 to the count of that key and leaves the other counts as they   *)
(* are                                                                       *)
C14_PaginationMonotone ==
    /\ \A key \in ParentKeys : Revealed(key) = 50
    /\ [](\A key \in ParentKeys \cup DOMAIN loadedCounts :
             Revealed(key) > 0 /\ Revealed(key) % 50 = 0)
    /\ [][\A key \in ParentKeys \cup DOMAIN loadedCounts :
             RevealedIn(loadedCounts', key) >= Revealed(key)]_vars
    /\ [][obs'.op = "loadMore" =>
             /\ RevealedIn(loadedCounts', obs'.key) = Revealed(obs'.key) + 50
             /\ \A key \in (ParentKeys \cup DOMAIN loadedCounts') \ {obs'.key} :
                   RevealedIn(loadedCounts', key) = Revealed(key)]_vars

(* a key was advanced twice, to 150, while another key is still at 50 *)
C14_Witness ==
    /\ obs.op = "loadMore"
    /\ Revealed(obs.key) = 150
    /\ \E key \in ParentKeys : Revealed(key) = 50

(* C16: the team, the epic and the feature of the same name or id have       *)
(* counters of their own, and only loadMore changes a counter: filter        *)
(* operations, the debounced and the explicit refresh, a cache clear and     *)
(* mutations leave every counter as it is                                    *)
C16_CountersNotReset ==
    /\ [](/\ TeamKey(<<"1">>) # EpicKey(1)
          /\ EpicKey(1) # FeatureKey(1)
          /\ TeamKey(<<"1">>) # FeatureKey(1)
          /\ EpicKey(1) # EpicKey(12))
    /\ [][loadedCounts' # loadedCounts => obs'.op = "loadMore"]_vars
    /\ [][obs'.op = "loadMore" =>
             \A key \in DOMAIN loadedCounts' \ {obs'.key} :
                key \in DOMAIN loadedCounts /\ loadedCounts'[key] = loadedCounts[key]]_vars

(* a list was revealed to 100; a tag filter was then set and a mutation has *)
(* resolved, and the count is still 100                                     *)
C16_Witness ==
    /\ obs.op = "resolved"
    /\ tagsFilter # <<>>
    /\ \E key \in DOMAIN loadedCounts : loadedCounts[key] = 100

(* C17: loadMore advances the counter and fires the tree-change event in the *)
(* step of the call; it arms no timer and leaves a pending debounce timer    *)
(* and its handle as they are                                                *)
C17_LoadMoreImmediate ==
    [][obs'.op = "loadMore" =>
          /\ obs'.fired = 1
          /\ RevealedIn(loadedCounts', obs'.key) = Revealed(obs'.key) + 50
          /\ timers' = timers
          /\ refreshTimeout' = refreshTimeout]_vars

(* loadMore was called while a debounced refresh was pending *)
C17_Witness ==
    /\ obs.op = "loadMore"
    /\ obs.fired = 1
    /\ DebounceTimers(timers) # <<>>

----------------------------------------------------------------------------
(* AdoBacklogProvider: the nodes of an expanded element *)

Min(a, b) == IF a < b THEN a ELSE b

(* a tree node of a work item *)
ItemNode(itemType, item) == [type |-> itemType, workItem |-> item]

(* the 'Load More... (n remaining)' node, its command carrying the parent key *)
LoadMoreNode(remaining, parentKey) ==
    [type |-> "loadMore", remaining |-> remaining, arguments |-> <<parentKey>>]

(* a paginateItems that offers to load more when the list ends on a page *)
paginateItemsEager(items, parentKey, itemType) ==
    LET loadedCount == LoadedCount(loadedCounts, parentKey)
        itemsToShow == SubSeq(items, 1, Min(loadedCount, Len(items)))
        result == [i \in 1..Len(itemsToShow) |-> ItemNode(itemType, itemsToShow[i])]
    IN  IF Len(items) >= loadedCount
        THEN Append(result, LoadMoreNode(Len(items) - loadedCount, parentKey))
        ELSE result

paginateItems(items, parentKey, itemType) ==
    LET loadedCount == LoadedCount(loadedCounts, parentKey)
        itemsToShow == SubSeq(items, 1, Min(loadedCount, Len(items)))
        result == [i \in 1..Len(itemsToShow) |-> ItemNode(itemType, itemsToShow[i])]
    IN  IF Len(items) > loadedCount
        THEN Append(result, LoadMoreNode(Len(items) - loadedCount, parentKey))
        ELSE result

OfType(items, workItemType) == SelectSeq(items, LAMBDA item : item.type = workItemType)

(* getChildren, team element: the epics of the area *)
TeamNodes(teamName, epics) == paginateItems(epics, TeamKey(teamName), "epic")

(* getChildren, epic element: the children that are features *)
EpicNodes(id, features) ==
    paginateItems(OfType(features, "Feature"), EpicKey(id), "feature")

(* the stories and the bugs left in the order of the fetch *)
FeatureNodesFetchedOrder(id, children) ==
    LET kept == SelectSeq(children, LAMBDA c : c.type \in {"User Story", "Bug"})
        allItems == [i \in 1..Len(kept) |->
                        ItemNode(IF kept[i].type = "Bug" THEN "bug" ELSE "userstory", kept[i])]
        parentKey == FeatureKey(id)
        loadedCount == LoadedCount(loadedCounts, parentKey)
        itemsToShow == SubSeq(allItems, 1, Min(loadedCount, Len(allItems)))
    IN  IF Len(allItems) > loadedCount
        THEN Append(itemsToShow, LoadMoreNode(Len(allItems) - loadedCount, parentKey))
        ELSE itemsToShow

(* getChildren, feature element: the user stories, then the bugs *)
FeatureNodes(id, children) ==
    LET stories == OfType(children, "User Story")
        bugs == OfType(children, "Bug")
        allItems == [i \in 1..Len(stories) |-> ItemNode("userstory", stories[i])]
                    \o [i \in 1..Len(bugs) |-> ItemNode("bug", bugs[i])]
        parentKey == FeatureKey(id)
        loadedCount == LoadedCount(loadedCounts, parentKey)
        itemsToShow == SubSeq(allItems, 1, Min(loadedCount, Len(allItems)))
    IN  IF Len(allItems) > loadedCount
        THEN Append(itemsToShow, LoadMoreNode(Len(allItems) - loadedCount, parentKey))
        ELSE itemsToShow

(* lengths of the lists a fetch returns, around the page boundaries *)
ListLengths == {0, 1, 49, 50, 51, 100, 101, 151}

(* a list of n work items, their types following a pattern *)
WorkItems(n, pattern) ==
    [i \in 1..n |-> [id |-> i, type |-> pattern[((i - 1) % Len(pattern)) + 1]]]

TypePatterns(kind) ==
    IF kind = "team" THEN {<<"Epic">>}
    ELSE IF kind = "epic" THEN {<<"Feature">>, <<"Feature", "Task">>}
    ELSE {<<"User Story">>, <<"Bug", "User Story">>, <<"User Story", "Task", "Bug">>}

(* the key of the element under which its counter is kept *)
ParentKeyOf(kind) ==
    IF kind = "team" THEN TeamKey(<<"A">>)
    ELSE IF kind = "epic" THEN EpicKey(1)
    ELSE FeatureKey(1)

NodeInputs ==
    {[pc |-> "expand", kind |-> kind, items |-> WorkItems(n, pattern)] :
        kind \in {"team"}, n \in ListLengths, pattern \in TypePatterns("team")}
    \cup {[pc |-> "expand", kind |-> kind, items |-> WorkItems(n, pattern)] :
        kind \in {"epic"}, n \in ListLengths, pattern \in TypePatterns("epic")}
    \cup {[pc |-> "expand", kind |-> kind, items |-> WorkItems(n, pattern)] :
        kind \in {"feature"}, n \in ListLengths, pattern \in TypePatterns("feature")}

(* getChildren returns the nodes of the element *)
ShowNodes(kind, nodes) ==
    /\ kq.pc = "expand"
    /\ kq.kind = kind
    /\ kq' = [pc |-> "nodes", kind |-> kind, items |-> kq.items, nodes |-> nodes]
    /\ ServiceUnchanged /\ FiltersUnchanged /\ RemoteUnchanged
    /\ UNCHANGED <<now, refreshTimeout, timers, obs, budget, remoteTags, currentTags,
                   refreshing, loadedCounts, panels, openPanels, commands>>

ShowTeam == ShowNodes("team", TeamNodes(<<"A">>, kq.items))
ShowEpic == ShowNodes("epic", EpicNodes(1, kq.items))
ShowFeature == ShowNodes("feature", FeatureNodes(1, kq.items))

(* the provider after zero, one or two loadMore calls on the element *)
InitNodes ==
    /\ now = 0
    /\ config = ConfiguredFor(1)
    /\ connection = loadConfig(config, Null)
    /\ cache = EmptyMap
    /\ stateCache = EmptyMap
    /\ InitProvider
    /\ timers = <<>>
    /\ remoteVer = 0
    /\ fetches = <<>>
    /\ muts = <<>>
    /\ budget = 0
    /\ obs = Idle
    /\ refreshing = FALSE
    /\ remoteTags = <<>>
    /\ currentTags = Undefined
    /\ panels = <<>>
    /\ openPanels = EmptyMap
    /\ commands = activate
    /\ kq \in NodeInputs
    /\ loadedCounts \in {EmptyMap} \cup
          {MapSet(EmptyMap, ParentKeyOf(kq.kind), pages * PAGE_SIZE) : pages \in {2, 3}}

NextNodes ==
    \/ ShowTeam
    \/ ShowEpic
    \/ ShowFeature

SpecNodes == InitNodes /\ [][NextNodes]_vars

----------------------------------------------------------------------------
(* Properties of the nodes *)

(* the work items the element lists, in the order it lists them *)
FullList(kind, items) ==
    IF kind = "team" THEN items
    ELSE IF kind = "epic" THEN OfType(items, "Feature")
    ELSE OfType(items, "User Story") \o OfType(items, "Bug")

(* C15: the nodes of an area, an epic or a feature are the first min(r,      *)
(* total) items of its list, in order, followed by one load-more node if and *)
(* only if r < total; that node carries total - r and the parent key         *)
C15_LoadMoreSentinel ==
    kq.pc = "nodes" =>
       LET full == FullList(kq.kind, kq.items)
           total == Len(full)
           r == Revealed(ParentKeyOf(kq.kind))
           shown == IF r < total THEN r ELSE total
       IN  /\ Len(kq.nodes) = shown + (IF r < total THEN 1 ELSE 0)
           /\ \A i \in 1..shown :
                 kq.nodes[i].type # "loadMore" /\ kq.nodes[i].workItem = full[i]
           /\ r < total =>
                 /\ kq.nodes[shown + 1].type = "loadMore"
                 /\ kq.nodes[shown + 1].remaining = total - r
                 /\ kq.nodes[shown + 1].arguments = <<ParentKeyOf(kq.kind)>>

(* a feature with 101 stories and bugs revealed to 100: 100 nodes and a     *)
(* load-more node with 1 remaining                                          *)
C15_Witness ==
    /\ kq.pc = "nodes"
    /\ kq.kind = "feature"
    /\ Len(kq.nodes) = 101
    /\ kq.nodes[101].type = "loadMore"
    /\ kq.nodes[101].remaining = 1
    /\ kq.nodes[100].type = "bug"

----------------------------------------------------------------------------
(* The work item panel: tags *)

MaxTagOps == 5

s_title == <<"t">>

(* what the user types into the 'Add new tag...' input *)
TagTexts == {<<"b">>, <<" ", "c">>, <<" ">>}

(* the System.Tags field of the item before the panel is opened *)
RemoteTagFields == {<<"a">>, <<"a", ";", " ", "b">>}

(* a detail panel showing a work item as it was at version shown *)
Panel(workItemId, shown) ==
    [item |-> workItemId, open |-> TRUE, shown |-> shown, renders |-> 1]

(* adoBacklog.openItem, once the team members have arrived: a panel is      *)
(* created and entered into openPanels under the id of its item; it shows   *)
(* the item, its tags among the rest                                        *)
OpenItem(workItemId) ==
    /\ budget > 0
    /\ budget' = budget - 1
    /\ currentTags' = Val(ParseTags(remoteTags))
    /\ panels' = Append(panels, Panel(workItemId, remoteVer))
    /\ openPanels' = MapSet(openPanels, workItemId, Len(panels) + 1)
    /\ obs' = Idle
    /\ ServiceUnchanged /\ FiltersUnchanged /\ RemoteUnchanged
    /\ UNCHANGED <<now, refreshTimeout, timers, kq, commands, remoteTags, refreshing,
                   loadedCounts>>

(* addTag, with the text of the input *)
addTag(text) ==
    /\ budget > 0
    /\ budget' = budget - 1
    /\ currentTags # Undefined
    /\ LET tag == trim(text)
       IN  currentTags' = IF tag # <<>> /\ tag \notin Range(currentTags.val)
                          THEN Val(Append(currentTags.val, tag))
                          ELSE currentTags
    /\ obs' = Idle
    /\ ServiceUnchanged /\ FiltersUnchanged /\ RemoteUnchanged
    /\ UNCHANGED <<now, refreshTimeout, timers, kq, panels, openPanels, commands, remoteTags, refreshing, loadedCounts>>

(* a click on the remove mark of a tag bubble *)
removeTag(tag) ==
    /\ budget > 0
    /\ budget' = budget - 1
    /\ currentTags # Undefined
    /\ tag \in Range(currentTags.val)
    /\ currentTags' = Val(SelectSeq(currentTags.val, LAMBDA t : t # tag))
    /\ obs' = Idle
    /\ ServiceUnchanged /\ FiltersUnchanged /\ RemoteUnchanged
    /\ UNCHANGED <<now, refreshTimeout, timers, kq, panels, openPanels, commands, remoteTags, refreshing, loadedCounts>>

(* the fields the save button posts, those the tag claim needs *)
saveFields ==
    ("System.Title" :> s_title)
    @@ ("System.Tags" :> Join(currentTags.val, s_tagSeparator))

(* the save button, the 'save' message and updateWorkItem up to its await;  *)
(* 'saved' records the tags of the panel at the click                       *)
SaveClick(id) ==
    /\ budget > 0
    /\ budget' = budget - 1
    /\ currentTags # Undefined
    /\ IF connection = Null
       THEN /\ obs' = Observe("rejected", <<>>, Null, 0, FALSE, {})
            /\ UNCHANGED muts
       ELSE /\ obs' = Idle
            /\ muts' = Append(muts, [kind |-> "update", id |-> id, stage |-> "sent",
                                     patch |-> patchDocument(saveFields),
                                     saved |-> Range(currentTags.val)])
    /\ ServiceUnchanged /\ FiltersUnchanged
    /\ UNCHANGED <<now, refreshTimeout, timers, remoteVer, fetches, kq, panels, openPanels, commands, remoteTags,
                   currentTags, refreshing, loadedCounts>>

InitTags ==
    /\ now = 0
    /\ config = ConfiguredFor(1)
    /\ connection = loadConfig(config, Null)
    /\ cache = EmptyMap
    /\ stateCache = EmptyMap
    /\ InitProvider
    /\ timers = <<>>
    /\ remoteVer = 0
    /\ fetches = <<>>
    /\ muts = <<>>
    /\ budget = MaxTagOps
    /\ obs = Idle
    /\ kq = KqIdle
    /\ refreshing = FALSE
    /\ loadedCounts = EmptyMap
    /\ remoteTags \in RemoteTagFields
    /\ currentTags = Undefined
    /\ panels = <<>>
    /\ openPanels = EmptyMap
    /\ commands = activate

NextTags ==
    \/ \E id \in ParentIds : currentTags = Undefined /\ OpenItem(id)
    \/ \E text \in TagTexts : addTag(text)
    \/ \E tag \in Range(ParseTags(<<"a", ";", " ", "b", ";", " ", "c">>)) : removeTag(tag)
    \/ \E id \in ParentIds : SaveClick(id)
    \/ \E i \in 1..Len(muts) : MutResolve(i)
    \/ \E i \in 1..Len(muts) : MutFail(i)

SpecTags == InitTags /\ [][NextTags]_vars

----------------------------------------------------------------------------
(* Properties of saving tags *)

TagSet(field) == Range(ParseTags(field))

IsSave(m) == "patch" \in DOMAIN m

(* the remote system applies the i-th mutation in flight in this step *)
Applies(i) == muts' = Without(muts, i) /\ remoteVer' = remoteVer + 1

(* C18: updateWorkItem sends System.Tags as a 'replace' operation, never as  *)
(* 'add'; once the save of tag set S is applied, the tags of the remote item *)
(* are exactly S, and no tag it had before outside S is left                 *)
C18_TagReplace ==
    /\ [](\A i \in 1..Len(muts) :
             IsSave(muts[i]) => muts[i].patch["System.Tags"].op = "replace")
    /\ [][\A i \in 1..Len(muts) :
             (IsSave(muts[i]) /\ Applies(i)) =>
                /\ TagSet(remoteTags') = muts[i].saved
                /\ (TagSet(remoteTags) \ muts[i].saved) \cap TagSet(remoteTags') = {}]_vars

(* tag a was removed in the panel, tag c added, and the save was applied *)
C18_Witness ==
    /\ obs.op = "resolved"
    /\ currentTags = Val(<< <<"b">>, <<"c">> >>)
    /\ remoteTags = <<"b", ";", " ", "c">>

----------------------------------------------------------------------------
(* AdoService: the text of the queries *)

(* a query template's line break with the indentation after it is written  *)
(* as one line break                                                        *)
q_epicWhere ==
    <<"W", "H", "E", "R", "E", " ", "[", "S", "y", "s", "t", "e", "m", ".",
      "T", "e", "a", "m", "P", "r", "o", "j", "e", "c", "t", "]", " ", "=",
      " ", "@", "p", "r", "o", "j", "e", "c", "t", "\n", "A", "N", "D", " ",
      "[", "S", "y", "s", "t", "e", "m", ".", "W", "o", "r", "k", "I", "t",
      "e", "m", "T", "y", "p", "e", "]", " ", "=", " ", "'", "E", "p", "i",
      "c", "'", "\n", "A", "N", "D", " ", "[", "S", "y", "s", "t", "e", "m",
      ".", "A", "r", "e", "a", "P", "a", "t", "h", "]", " ", "U", "N", "D",
      "E", "R", " ", "'">>

q_system ==
    <<"[", "S", "y", "s", "t", "e", "m", ".">>

q_target ==
    <<"[", "T", "a", "r", "g", "e", "t", "]", ".", "[", "S", "y", "s", "t",
      "e", "m", ".">>

q_idEquals ==
    <<"I", "d", "]", " ", "=", " ">>

q_titleContains ==
    <<"T", "i", "t", "l", "e", "]", " ", "C", "O", "N", "T", "A", "I", "N",
      "S", " ", "'">>

q_iterationUnder ==
    <<"I", "t", "e", "r", "a", "t", "i", "o", "n", "P", "a", "t", "h", "]",
      " ", "U", "N", "D", "E", "R", " ", "'">>

q_tagsContains ==
    <<"T", "a", "g", "s", "]", " ", "C", "O", "N", "T", "A", "I", "N", "S",
      " ", "'">>

q_assignedToContains ==
    <<"A", "s", "s", "i", "g", "n", "e", "d", "T", "o", "]", " ", "C", "O",
      "N", "T", "A", "I", "N", "S", " ", "'">>

q_and ==
    <<" ", "A", "N", "D", " ">>

q_epicSelect ==
    <<"S", "E", "L", "E", "C", "T", " ", "[", "S", "y", "s", "t", "e", "m",
      ".", "I", "d", "]", " ", "F", "R", "O", "M", " ", "W", "o", "r", "k",
      "I", "t", "e", "m", "s", "\n">>

q_epicOrder ==
    <<"\n", "O", "R", "D", "E", "R", " ", "B", "Y", " ", "[", "S", "y", "s",
      "t", "e", "m", ".", "T", "i", "t", "l", "e", "]">>

q_childSelect ==
    <<"S", "E", "L", "E", "C", "T", " ", "[", "S", "y", "s", "t", "e", "m",
      ".", "I", "d", "]", " ", "F", "R", "O", "M", " ", "W", "o", "r", "k",
      "I", "t", "e", "m", "L", "i", "n", "k", "s", "\n", "W", "H", "E", "R",
      "E", " ", "(", "[", "S", "o", "u", "r", "c", "e", "]", ".", "[", "S",
      "y", "s", "t", "e", "m", ".", "I", "d", "]", " ", "=", " ">>

q_childLink ==
    <<")", "\n", "A", "N", "D", " ", "(", "[", "S", "y", "s", "t", "e", "m",
      ".", "L", "i", "n", "k", "s", ".", "L", "i", "n", "k", "T", "y", "p",
      "e", "]", " ", "=", " ", "'", "S", "y", "s", "t", "e", "m", ".", "L",
      "i", "n", "k", "T", "y", "p", "e", "s", ".", "H", "i", "e", "r", "a",
      "r", "c", "h", "y", "-", "F", "o", "r", "w", "a", "r", "d", "'", ")",
      "\n">>

q_childMode ==
    <<"\n", "M", "O", "D", "E", " ", "(", "M", "u", "s", "t", "C", "o", "n",
      "t", "a", "i", "n", ")">>

s_HierarchyForward ==
    <<"S", "y", "s", "t", "e", "m", ".", "L", "i", "n", "k", "T", "y", "p",
      "e", "s", ".", "H", "i", "e", "r", "a", "r", "c", "h", "y", "-", "F",
      "o", "r", "w", "a", "r", "d">>

s_project == <<"P">>

(* a value.replace(/'/g, "''") that replaces nothing *)
escapeWiqlNone(value) == value

(* the least number of a non-empty set of numbers *)
Least(S) == CHOOSE i \in S : \A j \in S : i <= j

(* the places of a character in a text *)
PlacesOf(s, c) == {i \in 1..Len(s) : s[i] = c}

(* value.replace(/'/g, "''"), one apostrophe after the other *)
RECURSIVE escapeWiql(_)
escapeWiql(value) ==
    IF PlacesOf(value, "'") = {} THEN value
    ELSE LET first == Least(PlacesOf(value, "'"))
         IN  SubSeq(value, 1, first - 1) \o <<"'", "'">>
             \o escapeWiql(SubSeq(value, first + 1, Len(value)))

DigitChars == {"0", "1", "2", "3", "4", "5", "6", "7", "8", "9"}

(* a test that accepts any text with a digit in it *)
HasDigit(s) == \E i \in 1..Len(s) : s[i] \in DigitChars

(* /^\d+$/.test(s) *)
IsDigits(s) == s # <<>> /\ \A i \in 1..Len(s) : s[i] \in DigitChars

(* the digits a text starts with *)
DigitPrefix(s) ==
    LET others == {i \in 1..Len(s) : s[i] \notin DigitChars}
    IN  IF others = {} THEN s ELSE SubSeq(s, 1, Least(others) - 1)

(* a text of digits without its leading zeros *)
StripZeros(s) ==
    LET others == {i \in 1..Len(s) : s[i] # "0"}
    IN  IF others = {} THEN <<>> ELSE SubSeq(s, Least(others), Len(s))

NaN == [nan |-> TRUE]

(* parseInt(s, 10) of a text without a sign: the number is kept as its      *)
(* decimal digits without leading zeros                                     *)
parseInt(s) ==
    LET prefix == DigitPrefix(trimStart(s))
    IN  IF prefix = <<>> THEN NaN ELSE [digits |-> StripZeros(prefix)]

(* the longest decimal numbers that are all below Number.MAX_VALUE, and the *)
(* shortest that are all above it                                           *)
FiniteDigits == 308
OverflowDigits == 310

(* isFinite(n): parseInt gives Infinity for the numbers above               *)
(* Number.MAX_VALUE                                                         *)
isFinite(n) == n # NaN /\ Len(n.digits) <= FiniteDigits

(* `${n}` of a whole number small enough for a Number to hold it exactly *)
NumberString(n) == IF n.digits = <<>> THEN <<"0">> ELSE n.digits

(* a string that is neither undefined nor empty *)
IsSet(x) == x # Undefined /\ x.val # <<>>

(* tag conditions of which one is enough *)
tagConditionsAny(field, tags) ==
    Join([i \in 1..Len(tags) |->
             <<"(">> \o field \o q_tagsContains \o escapeWiql(tags[i]) \o <<"'", ")">>],
         <<" ", "O", "R", " ">>)

(* filters.tags.map(tag => `([System.Tags] CONTAINS '...')`).join(' AND ') *)
tagConditions(field, tags) ==
    Join([i \in 1..Len(tags) |->
             <<"(">> \o field \o q_tagsContains \o escapeWiql(tags[i]) \o <<"'", ")">>],
         q_and)

(* the conditions the filters add to the WHERE clause; field is the prefix  *)
(* of the field references, '[System.' or '[Target].[System.'               *)
FilterConditions(field, filters) ==
    IF filters = Undefined THEN <<>>
    ELSE
      LET search ==
            IF IsSet(filters.searchText)
            THEN LET parsedId == parseInt(filters.searchText.val)
                 IN  IF IsDigits(filters.searchText.val) /\ isFinite(parsedId)
                     THEN q_and \o field \o q_idEquals \o NumberString(parsedId)
                     ELSE q_and \o field \o q_titleContains
                          \o escapeWiql(filters.searchText.val) \o <<"'">>
            ELSE <<>>
          iteration ==
            IF IsSet(filters.iteration)
            THEN q_and \o field \o q_iterationUnder
                 \o escapeWiql(filters.iteration.val) \o <<"'">>
            ELSE <<>>
          tags ==
            IF filters.tags # Undefined /\ Len(filters.tags.val) > 0
            THEN q_and \o <<"(">> \o tagConditions(field, filters.tags.val) \o <<")">>
            ELSE <<>>
          assignedTo ==
            IF IsSet(filters.assignedTo)
            THEN q_and \o field \o q_assignedToContains
                 \o escapeWiql(filters.assignedTo.val) \o <<"'">>
            ELSE <<>>
      IN  search \o iteration \o tags \o assignedTo

(* areaPathName.includes('\\') ? areaPathName : project + '\\' + areaPathName *)
AreaPathOf(areaPathName) ==
    IF \E i \in 1..Len(areaPathName) : areaPathName[i] = "\\"
    THEN areaPathName
    ELSE s_project \o <<"\\">> \o areaPathName

(* getEpicsForTeam: the query it sends *)
EpicsQuery(areaPathName, filters) ==
    LET whereClause == q_epicWhere \o escapeWiql(AreaPathOf(areaPathName)) \o <<"'">>
                       \o FilterConditions(q_system, filters)
    IN  q_epicSelect \o whereClause \o q_epicOrder

(* getChildWorkItems: the query it sends *)
ChildrenQuery(parentId, filters) ==
    LET targetConditions == FilterConditions(q_target, filters)
    IN  q_childSelect \o NumStr(parentId) \o q_childLink \o targetConditions
        \o q_childMode

(* a search text of digits that parseInt turns into Infinity *)
HugeDigits == [i \in 1..OverflowDigits |-> "9"]

QueryTexts ==
    {<<>>, <<"7">>, <<"0", "0", "7">>, <<"0">>, <<"a">>, <<"7", "a">>,
     <<"i", "t", "'", "s">>, <<"'">>, <<"'", "'">>, HugeDigits}

QueryNames == {<<>>, <<"O", "'", "B">>}

QueryTagLists == {<<>>, << <<"u">> >>, << <<"x", "'">>, <<"'", "y">> >>}

QueryAreas == {<<"A">>, <<"T", "\\", "A", "'">>}

QueryFilters ==
    {Undefined} \cup {FiltersOf(st, it, tg, at) :
                         st \in QueryTexts, it \in QueryNames, tg \in QueryTagLists,
                         at \in QueryNames}

QueryInputs ==
    {[pc |-> "filters", area |-> area, parent |-> parent, filters |-> f] :
        area \in QueryAreas, parent \in KeyParents, f \in QueryFilters}

(* getEpicsForTeam builds its query *)
BuildEpicsQuery ==
    /\ kq.pc = "filters"
    /\ kq' = [pc |-> "query", kind |-> "epics", area |-> kq.area, parent |-> kq.parent,
              filters |-> kq.filters, query |-> EpicsQuery(kq.area, kq.filters)]
    /\ ServiceUnchanged /\ FiltersUnchanged /\ RemoteUnchanged
    /\ UNCHANGED <<now, refreshTimeout, timers, obs, budget, remoteTags, currentTags,
                   refreshing, loadedCounts, panels, openPanels, commands>>

(* getChildWorkItems builds its query *)
BuildChildrenQuery ==
    /\ kq.pc = "filters"
    /\ kq' = [pc |-> "query", kind |-> "children", area |-> kq.area,
              parent |-> kq.parent, filters |-> kq.filters,
              query |-> ChildrenQuery(kq.parent, kq.filters)]
    /\ ServiceUnchanged /\ FiltersUnchanged /\ RemoteUnchanged
    /\ UNCHANGED <<now, refreshTimeout, timers, obs, budget, remoteTags, currentTags,
                   refreshing, loadedCounts, panels, openPanels, commands>>

InitQuery ==
    /\ now = 0
    /\ config = ConfiguredFor(1)
    /\ connection = loadConfig(config, Null)
    /\ cache = EmptyMap
    /\ stateCache = EmptyMap
    /\ InitProvider
    /\ timers = <<>>
    /\ remoteVer = 0
    /\ fetches = <<>>
    /\ muts = <<>>
    /\ budget = 0
    /\ obs = Idle
    /\ refreshing = FALSE
    /\ loadedCounts = EmptyMap
    /\ remoteTags = <<>>
    /\ currentTags = Undefined
    /\ panels = <<>>
    /\ openPanels = EmptyMap
    /\ commands = activate
    /\ kq \in QueryInputs

NextQuery ==
    \/ BuildEpicsQuery
    \/ BuildChildrenQuery

SpecQuery == InitQuery /\ [][NextQuery]_vars

----------------------------------------------------------------------------
(* Properties of the queries *)

(* reading a query: the string literals in it, each with its doubled        *)
(* apostrophes un-doubled; open tells that the last literal has no end      *)
(* the reader goes from apostrophe to apostrophe: outside a literal the     *)
(* next apostrophe opens one; inside, two apostrophes in a row stand for    *)
(* one and a single apostrophe ends the literal                             *)
RECURSIVE Lex(_, _, _, _)
Lex(q, inLiteral, current, literals) ==
    IF PlacesOf(q, "'") = {} THEN [literals |-> literals, open |-> inLiteral]
    ELSE LET first == Least(PlacesOf(q, "'"))
             before == SubSeq(q, 1, first - 1)
         IN  IF ~inLiteral
             THEN Lex(SubSeq(q, first + 1, Len(q)), TRUE, <<>>, literals)
             ELSE IF first < Len(q) /\ q[first + 1] = "'"
                  THEN Lex(SubSeq(q, first + 2, Len(q)), TRUE,
                           current \o before \o <<"'">>, literals)
                  ELSE Lex(SubSeq(q, first + 1, Len(q)), FALSE, <<>>,
                           Append(literals, current \o before))

Literals(q) == Lex(q, FALSE, <<>>, <<>>)

(* a text with every two apostrophes in a row, from the left, made one *)
RECURSIVE Undouble(_)
Undouble(s) ==
    IF PlacesOf(s, "'") = {} THEN s
    ELSE LET first == Least(PlacesOf(s, "'"))
             doubled == first < Len(s) /\ s[first + 1] = "'"
         IN  SubSeq(s, 1, first)
             \o Undouble(SubSeq(s, first + (IF doubled THEN 2 ELSE 1), Len(s)))

Apostrophes(s) == Cardinality(PlacesOf(s, "'"))

NoApostrophes(s) == SelectSeq(s, LAMBDA c : c # "'")

Contains(s, part) ==
    \E i \in 1..(Len(s) - Len(part) + 1) : SubSeq(s, i, i + Len(part) - 1) = part

OnlyDigits(text) ==
    text # <<>> /\ \A i \in 1..Len(text) : text[i] \in DigitChars

(* a search text of digits whose value is a finite number *)
IsIdSearch(text) == OnlyDigits(text) /\ Len(StripZeros(text)) <= FiniteDigits

One(x) == IF IsSet(x) THEN <<x.val>> ELSE <<>>

(* the filter strings a query carries as literals, in the order of the query *)
FilterStrings(f) ==
    IF f = Undefined THEN <<>>
    ELSE (IF IsSet(f.searchText) /\ ~IsIdSearch(f.searchText.val)
          THEN <<f.searchText.val>> ELSE <<>>)
         \o One(f.iteration)
         \o (IF f.tags # Undefined THEN f.tags.val ELSE <<>>)
         \o One(f.assignedTo)

InterpolatedStrings ==
    IF kq.kind = "epics"
    THEN <<AreaPathOf(kq.area)>> \o FilterStrings(kq.filters)
    ELSE FilterStrings(kq.filters)

FixedLiterals == IF kq.kind = "epics" THEN <<s_Epic>> ELSE <<s_HierarchyForward>>

(* C19: every string interpolated into a query as a literal has each of its *)
(* apostrophes doubled and is otherwise unchanged; un-doubling gives the    *)
(* input back, and no input ends its literal early: read as a query, the    *)
(* text has exactly the literals that were put in                           *)
C19_EscapingRoundTrip ==
    kq.pc = "query" =>
       /\ \A i \in 1..Len(InterpolatedStrings) :
             LET v == InterpolatedStrings[i]
                 e == escapeWiql(v)
             IN  /\ Len(e) = Len(v) + Apostrophes(v)
                 /\ Apostrophes(e) = 2 * Apostrophes(v)
                 /\ NoApostrophes(e) = NoApostrophes(v)
                 /\ Undouble(e) = v
                 /\ Contains(kq.query, <<"'">> \o e \o <<"'">>)
       /\ Literals(kq.query) =
             [literals |-> FixedLiterals \o InterpolatedStrings, open |-> FALSE]

(* the title search for it's, sent as 'it''s' *)
C19_Witness ==
    /\ kq.pc = "query"
    /\ kq.filters # Undefined
    /\ kq.filters.searchText = Val(<<"i", "t", "'", "s">>)
    /\ Contains(kq.query, <<"'", "i", "t", "'", "'", "s", "'">>)

IdPredicate == q_and \o (IF kq.kind = "epics" THEN q_system ELSE q_target) \o q_idEquals

TitlePredicate ==
    q_and \o (IF kq.kind = "epics" THEN q_system ELSE q_target) \o q_titleContains

(* the places of a part in a text *)
Places(s, part) ==
    {i \in 1..(Len(s) - Len(part) + 1) : SubSeq(s, i, i + Len(part) - 1) = part}

(* the number written at a place of a text *)
NumberAt(s, i) == DigitPrefix(SubSeq(s, i, Len(s)))

Decimal(text) == IF StripZeros(text) = <<>> THEN <<"0">> ELSE StripZeros(text)

HasIdPredicate(text) ==
    /\ Cardinality(Places(kq.query, IdPredicate)) = 1
    /\ \A p \in Places(kq.query, IdPredicate) :
          NumberAt(kq.query, p + Len(IdPredicate)) = Decimal(text)
    /\ ~Contains(kq.query, TitlePredicate)

HasTitlePredicate(text) ==
    /\ Contains(kq.query, TitlePredicate \o escapeWiql(text) \o <<"'">>)
    /\ ~Contains(kq.query, IdPredicate)

HasSearchText == kq.pc = "query" /\ kq.filters # Undefined /\ IsSet(kq.filters.searchText)

FieldPrefix == IF kq.kind = "epics" THEN q_system ELSE q_target

RequestedTags ==
    IF kq.filters # Undefined /\ kq.filters.tags # Undefined THEN kq.filters.tags.val
    ELSE <<>>

TagPredicate(tag) ==
    <<"(">> \o FieldPrefix \o q_tagsContains \o escapeWiql(tag) \o <<"'", ")">>


(* C21: for tags t1..tn, n >= 1, the query has exactly n tags-contains      *)
(* predicates, the i-th one for ti, joined by AND with each other and, as   *)
(* one group, by AND with the rest of the WHERE clause; with no tags it has *)
(* no tags predicate                                                        *)
C21_TagsAllRequired ==
    kq.pc = "query" =>
       LET n == Len(RequestedTags)
           group == q_and \o <<"(">>
                    \o Join([i \in 1..n |-> TagPredicate(RequestedTags[i])], q_and)
                    \o <<")">>
       IN  /\ Cardinality(Places(kq.query, FieldPrefix \o q_tagsContains)) = n
           /\ n >= 1 => Cardinality(Places(kq.query, group)) = 1
           /\ ~Contains(kq.query, <<" ", "O", "R", " ">>)

(* the children query for the tags x' and 'y *)
C21_Witness ==
    /\ kq.pc = "query"
    /\ kq.kind = "children"
    /\ Len(RequestedTags) = 2
    /\ Contains(kq.query, TagPredicate(<<"x", "'">>) \o q_and \o TagPredicate(<<"'", "y">>))

----------------------------------------------------------------------------
(* getChildWorkItems: the rows of a hierarchy query result *)

RowTargets == {Val(1), Val(5), Val(7), Undefined}

MaxRows == 3

RowLists ==
    UNION {[1..n -> {[target |-> t] : t \in RowTargets}] : n \in 0..MaxRows}

(* result.workItemRelations: missing, or a list of rows *)
RowInputs == {[pc |-> "rows", result |-> r] : r \in Optional(RowLists)}

(* getChildWorkItems reads the answer of its query *)
ReadRelations ==
    /\ kq.pc = "rows"
    /\ kq' = [pc |-> "childIds", result |-> kq.result,
              ids |-> IdsOf("children", kq.result)]
    /\ ServiceUnchanged /\ FiltersUnchanged /\ RemoteUnchanged
    /\ UNCHANGED <<now, refreshTimeout, timers, obs, budget, remoteTags, currentTags,
                   refreshing, loadedCounts, panels, openPanels, commands>>

InitRows ==
    /\ now = 0
    /\ config = ConfiguredFor(1)
    /\ connection = loadConfig(config, Null)
    /\ cache = EmptyMap
    /\ stateCache = EmptyMap
    /\ InitProvider
    /\ timers = <<>>
    /\ remoteVer = 0
    /\ fetches = <<>>
    /\ muts = <<>>
    /\ budget = 0
    /\ obs = Idle
    /\ refreshing = FALSE
    /\ loadedCounts = EmptyMap
    /\ remoteTags = <<>>
    /\ currentTags = Undefined
    /\ panels = <<>>
    /\ openPanels = EmptyMap
    /\ commands = activate
    /\ kq \in RowInputs

NextRows == ReadRelations

SpecRows == InitRows /\ [][NextRows]_vars

(* the rows after the first that have a target, by their places *)
TargetRows(rows) == {i \in 2..Len(rows) : rows[i].target # Undefined}

(* C22: the first row of a hierarchy result is taken as the source; the     *)
(* child ids are the targets of the rows after it, in order; a result of    *)
(* zero or one rows, or none at all, gives the empty list                   *)
C22_FirstRowSkipped ==
    kq.pc = "childIds" =>
       IF kq.result = Undefined \/ Len(kq.result.val) <= 1 THEN kq.ids = <<>>
       ELSE LET rows == kq.result.val
                places == TargetRows(rows)
            IN  /\ Len(kq.ids) = Cardinality(places)
                /\ \A i \in places :
                      kq.ids[Cardinality({j \in places : j <= i})] = rows[i].target.val

(* rows [1, 5, 7] give the children [5, 7] *)
C22_Witness ==
    /\ kq.pc = "childIds"
    /\ kq.result = Val(<< [target |-> Val(1)], [target |-> Val(5)], [target |-> Val(7)] >>)
    /\ kq.ids = <<5, 7>>

----------------------------------------------------------------------------
(* AdoBacklogProvider: drag and drop *)

MaxDropOps == 2

s_HierarchyReverse == "System.LinkTypes.Hierarchy-Reverse"

RelationKinds == {s_HierarchyReverse, "System.LinkTypes.Hierarchy-Forward", "AttachedFile"}

(* workItem.relations: missing, or up to two relations *)
RelationLists ==
    Optional(UNION {[1..n -> {[rel |-> k] : k \in RelationKinds}] : n \in 0..2})

(* where a drop can land: an area path, a work item, or a node the dragged  *)
(* item cannot move to                                                      *)
DropTargets == {"team", "item", "invalid"}

(* an index that is the one of the first relation whenever there is a link *)
ParentIndexFirstRow(relations) ==
    IF \E i \in 1..Len(relations) : relations[i].rel = s_HierarchyReverse THEN 0 ELSE -1

(* relations.indexOf(relations.find(rel => rel.rel === Hierarchy-Reverse)), *)
(* counted from 0; -1 stands for no such relation                           *)
ParentIndex(relations) ==
    LET hits == {i \in 1..Len(relations) : relations[i].rel = s_HierarchyReverse}
    IN  IF hits = {} THEN -1 ELSE Least(hits) - 1

(* a step of a reparent in flight: the unlink, first reading the relations, *)
(* then the relink or the area path update                                  *)
DropStep(kind, id, stage, drop, newParent) ==
    [kind |-> kind, id |-> id, stage |-> stage, drop |-> drop, newParent |-> newParent,
     read |-> Undefined, index |-> -1]

IsDrop(m) == "drop" \in DOMAIN m

(* handleDrop's closing refresh() *)
DropRefresh ==
    /\ timers' = refresh(timers)
    /\ refreshTimeout' = Val(now)

(* reparentWorkItemById has caught an error, or returned early *)
DropEnds(op, dropped) ==
    /\ obs' = Observe(op, <<>>, Null, 0, FALSE, dropped)
    /\ DropRefresh

(* handleDrop up to the first await of removeParentLink *)
handleDrop(id, target) ==
    /\ budget > 0
    /\ budget' = budget - 1
    /\ IF target = "invalid" \/ ~(config.organizationUrl /\ config.project)
          \/ connection = Null
       THEN /\ DropEnds("dropRefused", {})
            /\ UNCHANGED muts
       ELSE /\ muts' = Append(muts, DropStep("unlink", id, "reading", budget, target))
            /\ obs' = Idle
            /\ UNCHANGED <<timers, refreshTimeout>>
    /\ ServiceUnchanged /\ FiltersUnchanged
    /\ UNCHANGED <<now, remoteVer, fetches, kq, panels, openPanels, commands, remoteTags, currentTags, refreshing,
                   loadedCounts>>

(* removeParentLink has invalidated and resolved: reparentWorkItemById goes *)
(* on with updateWorkItem (area path) or addParentLink, up to its await     *)
AfterUnlink(i) ==
    LET m == muts[i]
        kind == IF m.newParent = "team" THEN "update" ELSE "relink"
    IN  /\ cache' = invalidateWorkItemCache(cache, m.id)
        /\ IF connection = Null
           THEN /\ muts' = Without(muts, i)
                /\ DropEnds("dropFailed", Dropped(cache, cache'))
           ELSE /\ muts' = Append(Without(muts, i),
                                  DropStep(kind, m.id, "sent", m.drop, m.newParent))
                /\ obs' = Observe("unlinked", <<>>, Null, 0, FALSE, Dropped(cache, cache'))
                /\ UNCHANGED <<timers, refreshTimeout>>

(* removeParentLink: the item arrives with its relations *)
RelationsArrive(i, relations) ==
    /\ IsDrop(muts[i])
    /\ muts[i].stage = "reading"
    /\ IF relations # Undefined /\ ParentIndex(relations.val) >= 0
       THEN /\ muts' = [muts EXCEPT ![i].stage = "sent", ![i].read = relations,
                                    ![i].index = ParentIndex(relations.val)]
            /\ obs' = Idle
            /\ UNCHANGED <<cache, timers, refreshTimeout>>
       ELSE AfterUnlink(i)
    /\ FiltersUnchanged
    /\ UNCHANGED <<now, config, connection, stateCache, remoteVer, fetches, budget, kq, panels, openPanels, commands,
                   remoteTags, currentTags, refreshing, loadedCounts>>

(* the remote system has removed the relation *)
UnlinkApplied(i) ==
    /\ IsDrop(muts[i])
    /\ muts[i].kind = "unlink"
    /\ muts[i].stage = "sent"
    /\ remoteVer' = remoteVer + 1
    /\ AfterUnlink(i)
    /\ FiltersUnchanged
    /\ UNCHANGED <<now, config, connection, stateCache, fetches, budget, kq, panels, openPanels, commands,
                   remoteTags, currentTags, refreshing, loadedCounts>>

(* the remote system has added the parent link or set the area path: the    *)
(* method invalidates, the move is announced, handleDrop refreshes          *)
RelinkApplied(i) ==
    /\ IsDrop(muts[i])
    /\ muts[i].kind \in {"relink", "update"}
    /\ remoteVer' = remoteVer + 1
    /\ muts' = Without(muts, i)
    /\ cache' = invalidateWorkItemCache(cache, muts[i].id)
    /\ DropEnds("reparented", Dropped(cache, cache'))
    /\ FiltersUnchanged
    /\ UNCHANGED <<now, config, connection, stateCache, fetches, budget, kq, panels, openPanels, commands,
                   remoteTags, currentTags, refreshing, loadedCounts>>

(* a remote call of the reparent rejects: the error is shown, handleDrop    *)
(* refreshes                                                                *)
DropFails(i) ==
    /\ IsDrop(muts[i])
    /\ muts' = Without(muts, i)
    /\ DropEnds("dropFailed", {})
    /\ ServiceUnchanged /\ FiltersUnchanged
    /\ UNCHANGED <<now, remoteVer, fetches, budget, kq, panels, openPanels, commands, remoteTags, currentTags,
                   refreshing, loadedCounts>>

DropCaches ==
    {EmptyMap,
     [k \in {EpicsCacheKey(<<"A">>, FiltersOf(<<>>, <<>>, <<>>, <<>>)),
             ChildrenCacheKey(5, FiltersOf(<<"s">>, <<>>, <<>>, <<>>)),
             s_allTeamMembers} |-> [data |-> Payload(0, <<>>), timestamp |-> 0]]}

InitDrop == \E c \in DropCaches : InitState(MaxDropOps, c, EmptyMap)

NextDrop ==
    \/ \E id \in ParentIds, target \in DropTargets : handleDrop(id, target)
    \/ \E i \in 1..Len(muts), relations \in RelationLists : RelationsArrive(i, relations)
    \/ \E i \in 1..Len(muts) : UnlinkApplied(i)
    \/ \E i \in 1..Len(muts) : RelinkApplied(i)
    \/ \E i \in 1..Len(muts) : DropFails(i)
    \/ \E p \in ParentIds : GetChildrenOfItem(p)
    \/ \E i \in 1..Len(fetches) : \E r \in Optional(RelationRows) : FetchWiql(i, r)
    \/ \E i \in 1..Len(fetches) : \E w \in Optional({fetches[i].ids}) : FetchItems(i, w)
    \/ \E i \in 1..Len(timers) : AdvanceToTimer(i)
    \/ \E i \in 1..Len(timers) : DebounceFire(i)

SpecDrop == InitDrop /\ [][NextDrop]_vars

----------------------------------------------------------------------------
(* Properties of the reparent protocol *)

DropsOf(ms) == {ms[i] : i \in {j \in 1..Len(ms) : IsDrop(ms[j])}}

(* C23: the unlink reads the relations of the item from the remote system   *)
(* first and removes the relation at the index the Hierarchy-Reverse link   *)
(* has in the list it read; the relink or the area path change is issued    *)
(* only once the unlink has resolved; when both have succeeded no           *)
(* children_ or epics_ entry is left as the reparent completes              *)
C23_ReparentOrder ==
    /\ [](\A m \in DropsOf(muts) :
             (m.kind = "unlink" /\ m.stage = "sent") =>
                /\ m.read # Undefined
                /\ m.index >= 0
                /\ m.read.val[m.index + 1].rel = s_HierarchyReverse
                /\ \A j \in 1..m.index : m.read.val[j].rel # s_HierarchyReverse)
    /\ [][\A m \in DropsOf(muts') \ DropsOf(muts) :
             /\ (m.kind = "unlink" /\ m.stage = "sent") =>
                   \E u \in DropsOf(muts) :
                      u.kind = "unlink" /\ u.stage = "reading" /\ u.drop = m.drop
             /\ m.kind \in {"relink", "update"} =>
                   /\ \E u \in DropsOf(muts) : u.kind = "unlink" /\ u.drop = m.drop
                   /\ \A u \in DropsOf(muts') : u.drop = m.drop => u = m
                   /\ obs'.op = "unlinked"]_vars
    /\ [][obs'.op = "reparented" =>
             \A key \in DOMAIN cache' : ~IsWorkItemKey(key)]_vars

(* a reparent has completed after both remote changes, and its last step    *)
(* dropped an entry that a fetch had stored after the unlink                *)
C23_Witness ==
    /\ obs.op = "reparented"
    /\ remoteVer = 2
    /\ obs.dropped # {}

----------------------------------------------------------------------------
(* AdoBacklogProvider: the summary of the active filters *)

a_Search ==
    <<"S", "e", "a", "r", "c", "h", ":", " ", "\"">>

a_Iteration ==
    <<"I", "t", "e", "r", "a", "t", "i", "o", "n", ":", " ">>

a_Tags ==
    <<"T", "a", "g", "s", ":", " ">>

a_AssignedTo ==
    <<"A", "s", "s", "i", "g", "n", "e", "d", " ", "T", "o", ":", " ">>

a_separator ==
    <<" ", "|", " ">>

(* a summary that names the tags before the iteration *)
getActiveFiltersTagsFirst ==
    LET filters ==
          (IF searchText # <<>> THEN << a_Search \o searchText \o <<"\"">> >> ELSE <<>>)
          \o (IF Len(tagsFilter) > 0
              THEN << a_Tags \o Join(tagsFilter, <<",", " ">>) >> ELSE <<>>)
          \o (IF iterationFilter # <<>> THEN << a_Iteration \o iterationFilter >> ELSE <<>>)
          \o (IF assignedToFilter # <<>>
              THEN << a_AssignedTo \o assignedToFilter >> ELSE <<>>)
    IN  IF Len(filters) > 0 THEN Join(filters, a_separator) ELSE <<>>

getActiveFilters ==
    LET filters ==
          (IF searchText # <<>> THEN << a_Search \o searchText \o <<"\"">> >> ELSE <<>>)
          \o (IF iterationFilter # <<>> THEN << a_Iteration \o iterationFilter >> ELSE <<>>)
          \o (IF Len(tagsFilter) > 0
              THEN << a_Tags \o Join(tagsFilter, <<",", " ">>) >> ELSE <<>>)
          \o (IF assignedToFilter # <<>>
              THEN << a_AssignedTo \o assignedToFilter >> ELSE <<>>)
    IN  IF Len(filters) > 0 THEN Join(filters, a_separator) ELSE <<>>

SummaryTexts == {<<>>, <<"a">>, <<"x", " ", "y">>, <<"7">>}
SummaryNames == {<<>>, <<"I">>, <<"O", "'", "B">>}
SummaryTags == {<<>>, << <<"u">> >>, << <<"u">>, <<"v">> >>}

(* the status bar asks for the summary *)
ShowActiveFilters ==
    /\ kq.pc = "idle"
    /\ kq' = [pc |-> "summary", text |-> getActiveFilters]
    /\ ServiceUnchanged /\ FiltersUnchanged /\ RemoteUnchanged
    /\ UNCHANGED <<now, refreshTimeout, timers, obs, budget, remoteTags, currentTags,
                   refreshing, loadedCounts, panels, openPanels, commands>>

InitSummary ==
    /\ now = 0
    /\ config = ConfiguredFor(1)
    /\ connection = loadConfig(config, Null)
    /\ cache = EmptyMap
    /\ stateCache = EmptyMap
    /\ searchText \in SummaryTexts
    /\ iterationFilter \in SummaryNames
    /\ tagsFilter \in SummaryTags
    /\ assignedToFilter \in SummaryNames
    /\ refreshTimeout = Undefined
    /\ timers = <<>>
    /\ remoteVer = 0
    /\ fetches = <<>>
    /\ muts = <<>>
    /\ budget = 0
    /\ obs = Idle
    /\ refreshing = FALSE
    /\ loadedCounts = EmptyMap
    /\ remoteTags = <<>>
    /\ currentTags = Undefined
    /\ panels = <<>>
    /\ openPanels = EmptyMap
    /\ commands = activate
    /\ kq = KqIdle

NextSummary == ShowActiveFilters

SpecSummary == InitSummary /\ [][NextSummary]_vars

(* the parts of a summary, for the filters that are set, in the order       *)
(* search, iteration, tags, assignedTo                                      *)
SummaryParts ==
    SelectSeq(<< IF searchText = <<>> THEN <<>>
                 ELSE a_Search \o searchText \o <<"\"">>,
                 IF iterationFilter = <<>> THEN <<>>
                 ELSE a_Iteration \o iterationFilter,
                 IF tagsFilter = <<>> THEN <<>>
                 ELSE a_Tags \o Join(tagsFilter, <<",", " ">>),
                 IF assignedToFilter = <<>> THEN <<>>
                 ELSE a_AssignedTo \o assignedToFilter >>,
              LAMBDA part : part # <<>>)

(* C24: the summary is the parts of the filters that are set, and of no     *)
(* other, in the order search, iteration, tags, assignedTo, with ' | '      *)
(* between them; it is the empty string when no filter is set               *)
C24_ActiveFilters ==
    kq.pc = "summary" =>
       IF SummaryParts = <<>> THEN kq.text = <<>>
       ELSE /\ Split(kq.text, a_separator) = SummaryParts
            /\ Cardinality(Places(kq.text, a_separator)) = Len(SummaryParts) - 1

(* all four filters set: Search: "a" | Iteration: I | Tags: u, v | Assigned To: I *)
C24_Witness ==
    /\ kq.pc = "summary"
    /\ searchText = <<"a">>
    /\ Len(tagsFilter) = 2
    /\ Split(kq.text, a_separator) =
          << a_Search \o <<"a", "\"">>, a_Iteration \o <<"I">>,
             a_Tags \o <<"u", ",", " ", "v">>, a_AssignedTo \o <<"I">> >>

----------------------------------------------------------------------------
(* extension.ts: the detail panels and openPanels *)

MaxPanelOps == 4
PanelItems == {1, 2}

(* the onDidDispose callback of a panel: openPanels.delete(workItemId) *)
Disposed(opened, panel) == MapDelete(opened, {panels[panel].item})

(* the user closes a detail panel *)
ClosePanel(panel) ==
    /\ budget > 0
    /\ budget' = budget - 1
    /\ panels[panel].open
    /\ panels' = [panels EXCEPT ![panel].open = FALSE]
    /\ openPanels' = Disposed(openPanels, panel)
    /\ obs' = Idle
    /\ ServiceUnchanged /\ FiltersUnchanged /\ RemoteUnchanged
    /\ UNCHANGED <<now, refreshTimeout, timers, kq, commands, remoteTags, currentTags,
                   refreshing, loadedCounts>>

(* getWorkItem answers the refreshItem command: with no item (or with a     *)
(* rejection) the command ends, otherwise it goes on to getAllTeamMembers   *)
PanelItemArrives(i, found) ==
    /\ fetches[i].op = "panelItem"
    /\ fetches[i].stage = "sent"
    /\ fetches' = IF found
                  THEN [fetches EXCEPT ![i].stage = "members", ![i].ver = remoteVer]
                  ELSE Without(fetches, i)
    /\ obs' = Idle
    /\ ServiceUnchanged /\ FiltersUnchanged
    /\ UNCHANGED <<now, refreshTimeout, timers, remoteVer, muts, budget, kq, panels,
                   openPanels, commands, remoteTags, currentTags, refreshing, loadedCounts>>

(* getAllTeamMembers answers, storing the members unless they were cached,  *)
(* and the html of the panel is set; a disposed panel shows nothing         *)
PanelRendered(i) ==
    LET f == fetches[i]
    IN  /\ f.op = "panelItem"
        /\ f.stage = "members"
        /\ cache' = IF Truthy(getCached(s_allTeamMembers))
                     THEN cache
                     ELSE setCache(cache, s_allTeamMembers, Payload(remoteVer, <<>>))
        /\ panels' = IF panels[f.panel].open
                      THEN [panels EXCEPT ![f.panel].shown = f.ver,
                                          ![f.panel].renders = @ + 1]
                      ELSE panels
        /\ fetches' = Without(fetches, i)
        /\ obs' = Idle
        /\ FiltersUnchanged
        /\ UNCHANGED <<now, config, connection, stateCache, refreshTimeout, timers,
                       remoteVer, muts, budget, kq, openPanels, commands, remoteTags,
                       currentTags, refreshing, loadedCounts>>

InitPanels == InitWith(MaxPanelOps)

NextPanels ==
    \/ \E id \in PanelItems : OpenItem(id)
    \/ \E p \in 1..Len(panels) : ClosePanel(p)
    \/ \E id \in PanelItems : RefreshItemCommand(id)
    \/ \E i \in 1..Len(fetches), found \in BOOLEAN : PanelItemArrives(i, found)
    \/ \E i \in 1..Len(fetches) : PanelRendered(i)

SpecPanels == InitPanels /\ [][NextPanels]_vars

(* the step is the refreshItem command run on the item *)
RefreshesItem(id) ==
    /\ obs'.op = "refreshItem"
    /\ obs'.key = NumStr(id)
    /\ budget' = budget - 1

(* the panels that are open on the item *)
OpenOn(id) == {p \in 1..Len(panels) : panels[p].open /\ panels[p].item = id}

(* C25: whenever a detail panel is open for a work item, the refreshItem    *)
(* command run on that item fetches the item again for that panel, so that  *)
(* the panel is rendered anew; this after any opening and closing of        *)
(* panels, two panels on one item with one of them closed included          *)
C25_OpenPanelRefreshed ==
    [][\A id \in PanelItems :
          (RefreshesItem(id) /\ connection # Null) =>
             \A p \in OpenOn(id) :
                \E i \in 1..Len(fetches') :
                   /\ i > Len(fetches)
                   /\ fetches'[i].op = "panelItem"
                   /\ fetches'[i].panel = p]_vars

----------------------------------------------------------------------------
(* extension.ts: activation and the commands it registers *)

MaxActivateOps == 3

(* activate: the service and the provider are constructed, the team members *)
(* are asked for in the background, and the commands are registered         *)
Activate ==
    /\ commands = {}
    /\ connection' = loadConfig(config, Null)
    /\ fetches' = Append(fetches, Fetch("members", s_allTeamMembers))
    /\ commands' = activate
    /\ obs' = Idle
    /\ FiltersUnchanged
    /\ UNCHANGED <<now, config, cache, stateCache, refreshTimeout, timers, remoteVer, muts,
                   budget, kq, panels, openPanels, remoteTags, currentTags, refreshing,
                   loadedCounts>>

(* vscode.commands.executeCommand: only a registered command runs *)
Execute(command, Handler) == command \in commands /\ Handler

InitActivate ==
    /\ now = 0
    /\ config = ConfiguredFor(1)
    /\ connection = Null
    /\ cache = EmptyMap
    /\ stateCache = EmptyMap
    /\ InitProvider
    /\ timers = <<>>
    /\ remoteVer = 0
    /\ fetches = <<>>
    /\ muts = <<>>
    /\ budget = MaxActivateOps
    /\ obs = Idle
    /\ kq = KqIdle
    /\ remoteTags = <<>>
    /\ currentTags = Undefined
    /\ panels = <<>>
    /\ openPanels = EmptyMap
    /\ commands = {}
    /\ refreshing = FALSE
    /\ loadedCounts = EmptyMap

NextActivate ==
    \/ Activate
    \/ Execute("adoBacklog.refresh", RefreshCommand)
    \/ \E id \in PanelItems : Execute("adoBacklog.refreshItem", RefreshItemCommand(id))
    \/ \E id \in PanelItems : Execute("adoBacklog.openItem", OpenItem(id))
    \/ \E p \in 1..Len(panels) : ClosePanel(p)
    \/ \E i \in 1..Len(fetches), ok \in BOOLEAN : AuxAnswer(i, ok)
    \/ \E i \in 1..Len(fetches), found \in BOOLEAN : PanelItemArrives(i, found)
    \/ \E i \in 1..Len(fetches) : PanelRendered(i)

SpecActivate == InitActivate /\ [][NextActivate]_vars

(* C26: once the extension is activated, the registered commands include    *)
(* azureDevOpsBacklog.helloWorld                                            *)
C26_HelloWorldRegistered ==
    [](commands # {} => "azureDevOpsBacklog.helloWorld" \in commands)

----------------------------------------------------------------------------
(* AdoService: fetches in flight while the filters change and while other   *)
(* fetches of the same key are in flight                                    *)

MaxRaceOps == 4

InitRace == InitWith(MaxRaceOps)

NextRace ==
    \/ \E tags \in TagInputs \ {<<>>} : setTagsFilter(tags)
    \/ clearFilters
    \/ \E a \in AreaPaths : GetChildrenOfTeam(a)
    \/ \E p \in ParentIds : GetChildrenOfItem(p)
    \/ \E i \in 1..Len(fetches) :
          \E r \in Optional(IF fetches[i].op = "epics" THEN EpicIdLists ELSE RelationRows) :
             FetchWiql(i, r)
    \/ \E i \in 1..Len(fetches) : \E w \in Optional({fetches[i].ids}) : FetchItems(i, w)
    \/ \E i \in 1..Len(fetches) : FetchFail(i)

SpecRace == InitRace /\ [][NextRace]_vars

(* the keys whose entry the step wrote *)
Written == {k \in DOMAIN cache' : k \notin DOMAIN cache \/ cache'[k] # cache[k]}

(* the step ends the fetch at place j *)
Ends(j) == j \in 1..Len(fetches) /\ fetches' = Without(fetches, j)

(* the keys a fetch of the current filters would use *)
KeysOfNow ==
    {EpicsCacheKey(a, getfiltersForService) : a \in AreaPaths}
        \cup {ChildrenCacheKey(p, getfiltersForService) : p \in ParentIds}

(* C27: the key of a fetch is fixed when the fetch starts: the key of the   *)
(* cache check is the key the fetch carries, no step changes the key of a   *)
(* fetch in flight, and every cache write is made under the key of the      *)
(* fetch that makes it, whatever happened to the filters in between         *)
C27_KeyStable ==
    /\ [][obs'.op = "miss" =>
             /\ Len(fetches') = Len(fetches) + 1
             /\ fetches'[Len(fetches')].key = obs'.key
             /\ obs'.key \in KeysOfNow]_vars
    /\ [][Len(fetches') >= Len(fetches) =>
             \A i \in 1..Len(fetches) : fetches'[i].key = fetches[i].key]_vars
    /\ [][Len(fetches') < Len(fetches) => \E j \in 1..Len(fetches) : Ends(j)]_vars
    /\ [][\A k \in Written : \E j \in 1..Len(fetches) : Ends(j) /\ fetches[j].key = k]_vars

(* a fetch whose first answer has arrived, and whose key is no longer the   *)
(* key of the current filters                                               *)
C27_Witness ==
    \E i \in 1..Len(fetches) :
       /\ fetches[i].stage = "items"
       /\ \E j \in 1..Len(fetches) : fetches[j].op = "children"
       /\ fetches[i].key \notin KeysOfNow

(* C28: no fetch in flight is cancelled: a fetch ends only by the failure   *)
(* of a remote call or by writing its result under its key, at the time of  *)
(* the answer, also when the filters have changed or another fetch of the   *)
(* key has written meanwhile; a fetch that misses the cache issues its      *)
(* query even when a fetch of the same key is in flight; and the entry      *)
(* after a write is the one just written, so the last write stays           *)
C28_NoCancellation ==
    /\ [][\A j \in 1..Len(fetches) :
             (Ends(j) /\ obs'.op # "caught") =>
                /\ fetches[j].key \in DOMAIN cache'
                /\ cache'[fetches[j].key].timestamp = now
                /\ cache'[fetches[j].key].data.items \in {<<>>, fetches[j].ids}
                /\ cache'[fetches[j].key].data.ver =
                      (IF fetches[j].stage = "items" THEN fetches[j].ver ELSE remoteVer)]_vars
    /\ [][obs'.op = "miss" =>
             fetches' = Append(fetches, Fetch(fetches'[Len(fetches')].op, obs'.key))]_vars
    /\ [][\A j \in 1..Len(fetches') :
             j > Len(fetches) => fetches'[j].stage = "sent"]_vars

(* one of two fetches of a key has written its result, the other, started   *)
(* before that write, is about to write another                             *)
C28_Witness ==
    \E i \in 1..Len(fetches) :
       /\ fetches[i].key \in DOMAIN cache
       /\ fetches[i].stage = "items"
       /\ cache[fetches[i].key].data.items # fetches[i].ids
       /\ fetches[i].key \notin KeysOfNow

----------------------------------------------------------------------------
(* AdoBacklogProvider.getChildren: the children shown under an epic and     *)
(* under a feature                                                          *)

(* the places of the nodes that stand for work items *)
ItemPlaces == {i \in 1..Len(kq.nodes) : kq.nodes[i].type # "loadMore"}

(* the place of a shown work item in the list that was fetched *)
FetchedAt(i) == CHOOSE n \in 1..Len(kq.items) : kq.items[n] = kq.nodes[i].workItem

(* the fetched items of the types the element shows *)
Eligible(types) == {n \in 1..Len(kq.items) : kq.items[n].type \in types}

(* the fetched items of one type that are shown *)
ShownOf(workItemType) ==
    {n \in Eligible({workItemType}) :
        \E i \in ItemPlaces : kq.nodes[i].workItem = kq.items[n]}

(* S holds the first of the fetched items of the type, with no gap *)
FirstOf(S, workItemType) ==
    \A n \in S : \A m \in Eligible({workItemType}) : m < n => m \in S

(* C29: under an epic only the children of type Feature are shown, in the   *)
(* order of the fetch; under a feature the User Stories are shown in the    *)
(* order of the fetch, after them the Bugs in the order of the fetch, and   *)
(* no child of another type; what is shown is the first loadedCount of that *)
(* list                                                                     *)
C29_ChildrenByType ==
    (kq.pc = "nodes" /\ kq.kind \in {"epic", "feature"}) =>
       LET types == IF kq.kind = "epic" THEN {"Feature"} ELSE {"User Story", "Bug"}
           total == Cardinality(Eligible(types))
           r == Revealed(ParentKeyOf(kq.kind))
       IN  /\ \A i \in ItemPlaces :
                 /\ kq.nodes[i].workItem.type \in types
                 /\ kq.nodes[i].type =
                       (IF kq.nodes[i].workItem.type = "Feature" THEN "feature"
                        ELSE IF kq.nodes[i].workItem.type = "Bug" THEN "bug"
                        ELSE "userstory")
                 /\ \E n \in 1..Len(kq.items) : kq.items[n] = kq.nodes[i].workItem
           /\ ItemPlaces = 1..(IF r < total THEN r ELSE total)
           /\ \A i, j \in ItemPlaces :
                 i < j =>
                    /\ ~(kq.nodes[i].type = "bug" /\ kq.nodes[j].type = "userstory")
                    /\ kq.nodes[i].type = kq.nodes[j].type => FetchedAt(i) < FetchedAt(j)
           /\ \A t \in types : FirstOf(ShownOf(t), t)
           /\ ShownOf("Bug") # {} => ShownOf("User Story") = Eligible({"User Story"})

(* a feature whose children came with a bug before a story and with a task: *)
(* the story is shown before the bug, and the list is cut by the page       *)
C29_Witness ==
    /\ kq.pc = "nodes"
    /\ kq.kind = "feature"
    /\ \E n \in 1..Len(kq.items) : kq.items[n].type = "Task"
    /\ \E i, j \in ItemPlaces :
          /\ i < j
          /\ kq.nodes[i].type = "userstory"
          /\ kq.nodes[j].type = "bug"
          /\ FetchedAt(j) < FetchedAt(i)
    /\ kq.nodes[Len(kq.nodes)].type = "loadMore"

----------------------------------------------------------------------------
(* AdoService: the order the queries ask for *)

(* ORDER BY [System.Title] *)
OrderByTitle == SubSeq(q_epicOrder, 2, Len(q_epicOrder))

(* C30: the query for the epics and the hierarchy query for the children    *)
(* both ask for their results ordered by title                              *)
C30_OrderedByTitle ==
    kq.pc = "query" => Contains(kq.query, OrderByTitle)

----------------------------------------------------------------------------
(* AdoService.getBatchChildWorkItems: the parents taken from the cache and  *)
(* the parents fetched                                                      *)

BatchParents == {1, 5}
BatchLists == {<<1>>, <<5>>, <<1, 5>>, <<5, 1>>}

(* what the cache may hold for a parent when the batch is called: nothing,  *)
(* the entry of an unfiltered getChildWorkItems, still valid or expired, or *)
(* the entry of an expansion in the tree with no filter active              *)
EntryKinds == {"none", "valid", "expired", "tree"}

EntryOf(parentId, kind) ==
    IF kind = "none" THEN EmptyMap
    ELSE MapSet(EmptyMap,
                ChildrenCacheKey(parentId,
                                 IF kind = "tree" THEN FiltersOf(<<>>, <<>>, <<>>, <<>>)
                                 ELSE Undefined),
                [data |-> Payload(0, <<>>),
                 timestamp |-> IF kind = "expired" THEN 0 ELSE CACHE_TTL])

Merge(m1, m2) ==
    [key \in DOMAIN m1 \cup DOMAIN m2 |-> IF key \in DOMAIN m1 THEN m1[key] ELSE m2[key]]

(* getBatchChildWorkItems up to its await: the parents whose children are   *)
(* taken from the cache, the parents getChildWorkItems is called for, and   *)
(* the calls of these that miss the cache and go to the remote system       *)
getBatchChildWorkItems ==
    /\ kq.pc = "parents"
    /\ kq' = [pc |-> "batch", parentIds |-> kq.parentIds,
              uncachedParents |-> IF connection = Null THEN <<>>
                                  ELSE UncachedParents(kq.parentIds),
              queried |-> IF connection = Null THEN <<>>
                          ELSE BatchFetches(kq.parentIds)]
    /\ fetches' = IF connection = Null THEN fetches
                   ELSE fetches \o BatchFetches(kq.parentIds)
    /\ obs' = Idle
    /\ ServiceUnchanged /\ FiltersUnchanged
    /\ UNCHANGED <<now, refreshTimeout, timers, remoteVer, muts, budget, panels,
                   openPanels, commands, remoteTags, currentTags, refreshing,
                   loadedCounts>>

InitBatch ==
    /\ now = CACHE_TTL + 1
    /\ config = ConfiguredFor(1)
    /\ connection = loadConfig(config, Null)
    /\ \E k1, k5 \in EntryKinds : cache = Merge(EntryOf(1, k1), EntryOf(5, k5))
    /\ stateCache = EmptyMap
    /\ InitProvider
    /\ timers = <<>>
    /\ remoteVer = 0
    /\ fetches = <<>>
    /\ muts = <<>>
    /\ budget = 0
    /\ obs = Idle
    /\ kq \in {[pc |-> "parents", parentIds |-> ids] : ids \in BatchLists}
    /\ remoteTags = <<>>
    /\ currentTags = Undefined
    /\ panels = <<>>
    /\ openPanels = EmptyMap
    /\ commands = activate
    /\ refreshing = FALSE
    /\ loadedCounts = EmptyMap

NextBatch ==
    \/ getBatchChildWorkItems
    \/ \E i \in 1..Len(fetches) : \E r \in Optional(RelationRows) : FetchWiql(i, r)
    \/ \E i \in 1..Len(fetches) : \E w \in Optional({fetches[i].ids}) : FetchItems(i, w)
    \/ \E i \in 1..Len(fetches) : FetchFail(i)

SpecBatch == InitBatch /\ [][NextBatch]_vars

(* the step is a call of getBatchChildWorkItems *)
BatchCalled == kq.pc = "parents" /\ kq'.pc = "batch"

(* C31: getBatchChildWorkItems takes a parent for cached exactly when the   *)
(* cache holds a valid entry under the key an unfiltered getChildWorkItems  *)
(* writes for it, and calls getChildWorkItems for the other parents only    *)
C31_BatchPartition ==
    [][BatchCalled =>
          \A p \in Range(kq'.parentIds) :
             p \in Range(kq'.uncachedParents) <=>
                ~Truthy(getCached(ChildrenCacheKey(p, Undefined)))]_vars

----------------------------------------------------------------------------
(* AdoService.preFetchChildren and the filters *)

(* one of the four filters of the provider is set *)
FilterActive ==
    searchText # <<>> \/ iterationFilter # <<>> \/ tagsFilter # <<>>
        \/ assignedToFilter # <<>>

(* the step is the callback of preFetchChildren: getBatchChildWorkItems *)
BatchInvoked ==
    \E i \in 1..Len(timers) : timers[i].kind = "prefetch" /\ timers' = Without(timers, i)

(* the step is the end of a getEpicsForTeam call that schedules a pre-fetch *)
PrefetchScheduledBy(j) ==
    /\ Ends(j)
    /\ Len(timers') = Len(timers) + 1
    /\ timers'[Len(timers')].kind = "prefetch"

(* the keys of the epics of an area fetched with no filter *)
UnfilteredEpicKeys ==
    {EpicsCacheKey(a, f) : a \in AreaPaths,
                           f \in {Undefined, FiltersOf(<<>>, <<>>, <<>>, <<>>)}}

(* C32: getBatchChildWorkItems is never invoked while one of the four       *)
(* filters is active, and no fetch of the epics of an area made with an     *)
(* active filter schedules the pre-fetch that invokes it                    *)
C32_NoBatchUnderFilters ==
    /\ [][BatchInvoked => ~FilterActive]_vars
    /\ [][\A j \in 1..Len(fetches) :
             PrefetchScheduledBy(j) => fetches[j].key \in UnfilteredEpicKeys]_vars

----------------------------------------------------------------------------
(* AdoService.preFetchChildren: what the warmed cache serves *)

(* the step is an expansion of the epic in the tree that reached the cache *)
TreeExpands(parentId) ==
    /\ obs'.op \in {"hit", "miss"}
    /\ obs'.key = ChildrenCacheKey(parentId, getfiltersForService)

(* the entry the pre-fetch wrote for the epic is in the cache and valid *)
Warmed(parentId) == Truthy(getCached(ChildrenCacheKey(parentId, Undefined)))

(* C33: a fetch of the epics of an area that returns 1 to 10 epics          *)
(* schedules the pre-fetch of their children 500 ms later; and once the     *)
(* pre-fetch has stored the children of an epic, expanding that epic in the *)
(* tree with no filter active, within the TTL and with no invalidation in   *)
(* between, is served from the cache with no remote query                   *)
C33_PrefetchWarms ==
    /\ [][\A j \in 1..Len(fetches) :
             (Ends(j) /\ fetches[j].op = "epics" /\ fetches[j].stage = "items"
                /\ obs'.op # "caught"
                /\ cache'[fetches[j].key].data.items # <<>>) =>
                timers' = Append(timers, Timer("prefetch", now, PREFETCH_MS,
                                               cache'[fetches[j].key].data.items))]_vars
    /\ [][\A p \in ParentIds :
             (TreeExpands(p) /\ ~FilterActive /\ Warmed(p)) =>
                obs'.op = "hit" /\ fetches' = fetches]_vars

----------------------------------------------------------------------------
(* AdoService.preFetchChildren: failures of the background path *)

(* C34: a failure in the pre-fetch is swallowed: no message is shown and    *)
(* nothing is returned to anyone, the cache is left as it was, entry by     *)
(* entry, and the other calls in flight and the timers are not touched      *)
C34_PrefetchFailureSwallowed ==
    /\ [][\A j \in 1..Len(fetches) :
             (Ends(j) /\ fetches[j].by = "prefetch" /\ obs'.op \in {"caught", "swallowed"}) =>
                /\ obs'.op = "swallowed"
                /\ obs'.ret = Null
                /\ cache' = cache
                /\ stateCache' = stateCache
                /\ timers' = timers]_vars
    /\ [][obs'.op = "caught" =>
             \E j \in 1..Len(fetches) : Ends(j) /\ fetches[j].by = "tree"]_vars

(* a pre-fetch call has failed while the cache held the epics of the area   *)
C34_Witness ==
    /\ obs.op = "swallowed"
    /\ \E key \in DOMAIN cache : startsWith(key, s_epics) /\ cache[key].data.items # <<>>

----------------------------------------------------------------------------
(* extension.ts: manageCustomFields, the importFromAdo message *)

s_Feature == <<"F", "e", "a", "t", "u", "r", "e">>
s_UserStory == <<"U", "s", "e", "r", " ", "S", "t", "o", "r", "y">>
s_Bug == <<"B", "u", "g">>

wiTypes == <<s_Epic, s_Feature, s_UserStory, s_Bug>>

(* the reference names the import leaves out, one of them *)
standardFields == {"System.Title"}

Field(referenceName, alwaysRequired) ==
    [referenceName |-> referenceName, alwaysRequired |-> alwaysRequired]

(* what getWorkItemTypeFieldsWithReferences can answer for a type, when it  *)
(* answers with a list (fieldInstances may also be undefined)               *)
FieldAnswers ==
    {<<>>,
     <<Field("System.Title", TRUE)>>,
     <<Field("Custom.A", FALSE)>>,
     <<Field("System.Title", TRUE), Field("Custom.A", TRUE)>>}

(* a remote call that rejects *)
Failed == [failed |-> TRUE]

(* an import that treats a failed type as the end of the loop *)
NextTypeAborting(at, answer) == IF answer = Failed THEN Len(wiTypes) + 1 ELSE at + 1

(* the loop goes on to the next type, whatever the answer was *)
NextType(at, answer) == at + 1

(* the body of the loop for one type: a field not seen before is entered,   *)
(* a field seen before gets the type added and becomes required if it is    *)
(* required for this type                                                   *)
RECURSIVE Discover(_, _, _)
Discover(discovered, wit, fields) ==
    IF fields = <<>> THEN discovered
    ELSE LET f == Head(fields)
             seen == {i \in 1..Len(discovered) :
                         discovered[i].referenceName = f.referenceName}
             next ==
                 IF f.referenceName \in standardFields THEN discovered
                 ELSE IF seen # {}
                 THEN LET i == CHOOSE i \in seen : TRUE
                      IN  [discovered EXCEPT
                              ![i].workItemTypes = Append(@, wit),
                              ![i].alwaysRequired = @ \/ f.alwaysRequired]
                 ELSE Append(discovered,
                             [referenceName |-> f.referenceName,
                              workItemTypes |-> <<wit>>,
                              alwaysRequired |-> f.alwaysRequired])
         IN  Discover(next, wit, Tail(fields))

(* the message importFromAdo arrives: the loop starts with the first type *)
ImportFromAdo ==
    /\ kq.pc = "idle"
    /\ kq' = [pc |-> "import", at |-> 1, waiting |-> FALSE, discovered |-> <<>>,
              got |-> <<>>]
    /\ obs' = Idle
    /\ ServiceUnchanged /\ FiltersUnchanged /\ RemoteUnchanged
    /\ UNCHANGED <<now, refreshTimeout, timers, budget, panels, openPanels, commands,
                   remoteTags, currentTags, refreshing, loadedCounts>>

(* getWorkItemTypeFields for the type the loop is at, up to its await:      *)
(* without a connection it returns [], with a valid entry it returns that   *)
ImportAsk ==
    LET wit == wiTypes[kq.at]
        cached == getCached(WitFieldsCacheKey(wit))
        fields == IF connection = Null THEN <<>> ELSE cached.items
    IN  /\ kq.pc = "import"
        /\ kq.at <= Len(wiTypes)
        /\ ~kq.waiting
        /\ IF connection = Null \/ Truthy(cached)
           THEN kq' = [kq EXCEPT !.at = NextType(@, Val(fields)),
                                 !.discovered = Discover(@, wit, fields),
                                 !.got = Append(@, Val(fields))]
           ELSE kq' = [kq EXCEPT !.waiting = TRUE]
        /\ obs' = Idle
        /\ ServiceUnchanged /\ FiltersUnchanged /\ RemoteUnchanged
        /\ UNCHANGED <<now, refreshTimeout, timers, budget, panels, openPanels, commands,
                       remoteTags, currentTags, refreshing, loadedCounts>>

(* the remote call answers: the fields are stored and returned, or the call *)
(* rejects, the error is logged and [] is returned with nothing stored      *)
ImportAnswer(answer) ==
    LET wit == wiTypes[kq.at]
        fields == IF answer \in {Failed, Undefined} THEN <<>> ELSE answer.val
    IN  /\ kq.pc = "import"
        /\ kq.waiting
        /\ cache' = IF answer = Failed THEN cache
                     ELSE setCache(cache, WitFieldsCacheKey(wit), Payload(remoteVer, fields))
        /\ kq' = [kq EXCEPT !.at = NextType(@, answer),
                            !.waiting = FALSE,
                            !.discovered = Discover(@, wit, fields),
                            !.got = Append(@, answer)]
        /\ obs' = Idle
        /\ FiltersUnchanged /\ RemoteUnchanged
        /\ UNCHANGED <<now, config, connection, stateCache, refreshTimeout, timers, budget,
                       panels, openPanels, commands, remoteTags, currentTags, refreshing,
                       loadedCounts>>

(* after the last type: panel.webview.postMessage importResults *)
ImportPost ==
    /\ kq.pc = "import"
    /\ kq.at > Len(wiTypes)
    /\ kq' = [pc |-> "importResults", discovered |-> kq.discovered, got |-> kq.got]
    /\ obs' = Idle
    /\ ServiceUnchanged /\ FiltersUnchanged /\ RemoteUnchanged
    /\ UNCHANGED <<now, refreshTimeout, timers, budget, panels, openPanels, commands,
                   remoteTags, currentTags, refreshing, loadedCounts>>

(* the service with or without a connection; the fields of Epic may be in   *)
(* the cache from an earlier import                                         *)
InitImport ==
    /\ now = 0
    /\ config \in Configs
    /\ connection = loadConfig(config, Null)
    /\ cache \in {EmptyMap,
                  MapSet(EmptyMap, WitFieldsCacheKey(s_Epic),
                         [data |-> Payload(0, <<Field("Custom.A", FALSE)>>),
                          timestamp |-> 0])}
    /\ stateCache = EmptyMap
    /\ InitProvider
    /\ timers = <<>>
    /\ remoteVer = 0
    /\ fetches = <<>>
    /\ muts = <<>>
    /\ budget = 0
    /\ obs = Idle
    /\ kq = KqIdle
    /\ remoteTags = <<>>
    /\ currentTags = Undefined
    /\ panels = <<>>
    /\ openPanels = EmptyMap
    /\ commands = activate
    /\ refreshing = FALSE
    /\ loadedCounts = EmptyMap

NextImport ==
    \/ ImportFromAdo
    \/ ImportAsk
    \/ \E answer \in Optional(FieldAnswers) \cup {Failed} : ImportAnswer(answer)
    \/ ImportPost

(* every remote call is answered, by a result or by a failure *)
SpecImport == InitImport /\ [][NextImport]_vars /\ WF_vars(NextImport)

(* the types, by their place in wiTypes, for which the field was returned *)
TypesWith(referenceName, got) ==
    {t \in 1..Len(got) :
        /\ got[t] \notin {Failed, Undefined}
        /\ \E i \in 1..Len(got[t].val) : got[t].val[i].referenceName = referenceName}

(* C35: the import over Epic, Feature, User Story and Bug always comes to   *)
(* its end and posts its results; a type whose fields could not be fetched  *)
(* adds no field and no cache entry, and the types after it are processed:  *)
(* the results list every custom field returned for a type, with exactly    *)
(* the types it was returned for                                            *)
C35_ImportSurvivesFailure ==
    /\ (kq.pc = "import") ~> (kq.pc = "importResults")
    /\ [][(kq.pc = "import" /\ kq'.pc = "import" /\ Len(kq'.got) > Len(kq.got)
             /\ kq'.got[Len(kq'.got)] = Failed) =>
             /\ kq'.discovered = kq.discovered
             /\ cache' = cache
             /\ kq'.at = kq.at + 1]_vars
    /\ [](kq.pc = "importResults" =>
             /\ Len(kq.got) = Len(wiTypes)
             /\ \A i \in 1..Len(kq.discovered) :
                   /\ kq.discovered[i].referenceName \notin standardFields
                   /\ Range(kq.discovered[i].workItemTypes) =
                         {wiTypes[t] : t \in TypesWith(kq.discovered[i].referenceName, kq.got)}
             /\ \A t \in 1..Len(kq.got) :
                   kq.got[t] \notin {Failed, Undefined} =>
                      \A j \in 1..Len(kq.got[t].val) :
                         kq.got[t].val[j].referenceName \notin standardFields =>
                            \E i \in 1..Len(kq.discovered) :
                               kq.discovered[i].referenceName =
                                  kq.got[t].val[j].referenceName)

(* the results were posted after the fetch for Feature had failed and the   *)
(* fetch for a later type had returned a custom field                       *)
C35_Witness ==
    /\ kq.pc = "importResults"
    /\ kq.got[2] = Failed
    /\ \E i \in 1..Len(kq.discovered) :
          \E t \in {3, 4} : wiTypes[t] \in Range(kq.discovered[i].workItemTypes)

----------------------------------------------------------------------------
(* AdoService: mutations that fail *)

MaxMutOps == 2

(* with a connection the cache holds what fetches have stored; a service    *)
(* that never had one can hold the team members only                        *)
InitMutFail ==
    /\ now = 0
    /\ config \in Configs
    /\ connection = loadConfig(config, Null)
    /\ cache \in (IF connection = Null
                  THEN {EmptyMap,
                        MapSet(EmptyMap, s_allTeamMembers,
                               [data |-> Payload(0, <<>>), timestamp |-> 0])}
                  ELSE WarmCaches)
    /\ stateCache \in (IF connection = Null THEN {EmptyMap} ELSE WarmStateCaches)
    /\ InitProvider
    /\ timers = <<>>
    /\ remoteVer = 0
    /\ fetches = <<>>
    /\ muts = <<>>
    /\ budget = MaxMutOps
    /\ obs = Idle
    /\ kq = KqIdle
    /\ remoteTags = <<>>
    /\ currentTags = Undefined
    /\ panels = <<>>
    /\ openPanels = EmptyMap
    /\ commands = activate
    /\ refreshing = FALSE
    /\ loadedCounts = EmptyMap

NextMutFail == MutationStep

SpecMutFail == InitMutFail /\ [][NextMutFail]_vars

(* C36: a mutation called without a connection rejects at once, and a       *)
(* mutation whose remote call rejects, rejects; in both cases the cache and *)
(* the state cache are left as they were, entry by entry; a mutation leaves *)
(* the calls in flight only by resolving or by such a rejection             *)
C36_FailedMutationKeepsCache ==
    /\ [][obs'.op \in {"rejected", "failed"} =>
             cache' = cache /\ stateCache' = stateCache]_vars
    /\ [][(budget' = budget - 1 /\ connection = Null) =>
             obs'.op = "rejected" /\ muts' = muts]_vars
    /\ [][Len(muts') < Len(muts) => obs'.op \in {"resolved", "failed"}]_vars
    /\ [][cache' # cache => obs'.op = "resolved"]_vars

(* the remote call of a mutation has been rejected while the cache held     *)
(* entries of epics or children                                             *)
C36_Witness ==
    /\ obs.op = "failed"
    /\ \E key \in DOMAIN cache : IsWorkItemKey(key)

----------------------------------------------------------------------------
(* AdoService: fetches that fail *)

(* C37: when the query or the read of the items of a fetch of epics or of   *)
(* children rejects, the fetch writes nothing: every cache entry, that of   *)
(* its own key included, is as it was, and no pre-fetch is scheduled        *)
C37_FailedFetchWritesNothing ==
    [][obs'.op \in {"caught", "swallowed"} =>
          /\ \E j \in 1..Len(fetches) : Ends(j) /\ fetches[j].key = obs'.key
          /\ cache' = cache
          /\ stateCache' = stateCache
          /\ timers' = timers]_vars

(* a fetch has failed whose key has an expired entry in the cache *)
C37_Witness ==
    /\ obs.op = "caught"
    /\ obs.key \in DOMAIN cache
    /\ ~Truthy(getCached(obs.key))

----------------------------------------------------------------------------
(* AdoService: empty results in the cache *)

(* C38: a fetch whose query returns no item (for children: no row but that  *)
(* of the source) stores the empty list under its key, and a later fetch of *)
(* the same key within the TTL, the entry still there, returns the empty    *)
(* list from the cache and issues no remote call                            *)
C38_EmptyResultCached ==
    /\ [][\A j \in 1..Len(fetches) :
             (Ends(j) /\ fetches[j].stage = "sent"
                /\ obs'.op \notin {"caught", "swallowed"}) =>
                cache'[fetches[j].key] =
                   [data |-> Payload(remoteVer, <<>>), timestamp |-> now]]_vars
    /\ [][(obs'.op \in {"hit", "miss"}
             /\ obs'.key \in DOMAIN cache
             /\ cache[obs'.key].data.items = <<>>
             /\ now - cache[obs'.key].timestamp < CACHE_TTL) =>
             /\ obs'.op = "hit"
             /\ obs'.ret = cache[obs'.key].data
             /\ fetches' = fetches]_vars

(* a fetch has been served the empty list from the cache, some time after   *)
(* it was stored                                                            *)
C38_Witness ==
    /\ obs.op = "hit"
    /\ obs.ret.items = <<>>
    /\ now > cache[obs.key].timestamp

----------------------------------------------------------------------------
(* AdoBacklogProvider.reparentWorkItemById: a reparent that fails half way *)

(* the step is the failure of the remote call of the drop step at place i *)
FailsAt(i, kinds) ==
    /\ i \in 1..Len(muts)
    /\ IsDrop(muts[i])
    /\ muts[i].kind \in kinds
    /\ muts' = Without(muts, i)
    /\ obs'.op = "dropFailed"

(* the entries of epics and of children that were read before the last      *)
(* change the remote system has made                                        *)
StaleEntries(c) ==
    {key \in DOMAIN c : IsWorkItemKey(key) /\ c[key].data.ver < remoteVer}

(* the unlink has purged the entries of epics and of children, and a relink *)
(* is started by a resolved unlink only                                     *)
PurgedAtUnlink ==
    /\ [][obs'.op = "unlinked" => \A key \in DOMAIN cache' : ~IsWorkItemKey(key)]_vars
    /\ [][\A i \in 1..Len(muts) :
             FailsAt(i, {"unlink"}) =>
                \A m \in DropsOf(muts') : m.drop # muts[i].drop]_vars
    /\ [][\A m \in DropsOf(muts') \ DropsOf(muts) :
             m.kind \in {"relink", "update"} => obs'.op = "unlinked"]_vars

(* C39: when the unlink of a reparent has succeeded and the relink or the   *)
(* update of the area path then fails, the entries of epics and of children *)
(* have been purged, so that the cache holds no such entry read before the  *)
(* unlink and the next fetch sees the item without its parent; and when the *)
(* unlink fails no relink is attempted                                      *)
C39_PartialReparent ==
    /\ PurgedAtUnlink
    /\ [][\A i \in 1..Len(muts) :
             FailsAt(i, {"relink", "update"}) => StaleEntries(cache') = {}]_vars

----------------------------------------------------------------------------
(* AdoBacklogProvider.handleDrop: the moves it accepts *)

(* the types of the elements that carry a work item, and so can be dragged *)
DraggedTypes == {"epic", "feature", "userstory", "bug"}

(* target?.type: the type of the element dropped on, if there is one *)
TargetTypes == Optional({"team", "epic", "feature", "userstory", "bug", "loadMore"})

(* a validation that accepts every drop on an element of another type *)
ValidMoveLoose(draggedType, targetType) ==
    targetType # Undefined /\ targetType.val # draggedType

(* the four branches of handleDrop that call reparentWorkItemById *)
ValidMove(draggedType, targetType) ==
    \/ draggedType = "userstory" /\ targetType = Val("feature")
    \/ draggedType = "bug" /\ targetType = Val("feature")
    \/ draggedType = "feature" /\ targetType = Val("epic")
    \/ draggedType = "epic" /\ targetType = Val("team")

(* what reparentWorkItemById makes of the target of an accepted move *)
TargetOf(draggedType, targetType) ==
    IF ~ValidMove(draggedType, targetType) THEN "invalid"
    ELSE IF targetType = Val("team") THEN "team"
    ELSE "item"

(* handleDrop of one dragged entry: without transfer data it returns, an    *)
(* entry without id is passed over, and the rest is the drop of the item    *)
DropOn ==
    /\ kq.pc = "dropped"
    /\ IF ~kq.transfer
       THEN /\ budget > 0
            /\ budget' = budget - 1
            /\ obs' = Observe("dropIgnored", <<>>, Null, 0, FALSE, {})
            /\ ServiceUnchanged /\ FiltersUnchanged /\ RemoteUnchanged
            /\ UNCHANGED <<now, refreshTimeout, timers, kq, panels, openPanels, commands,
                           remoteTags, currentTags, refreshing, loadedCounts>>
       ELSE IF kq.id = Undefined
       THEN /\ budget > 0
            /\ budget' = budget - 1
            /\ DropEnds("dropSkipped", {})
            /\ ServiceUnchanged /\ FiltersUnchanged /\ RemoteUnchanged
            /\ UNCHANGED <<now, kq, panels, openPanels, commands, remoteTags, currentTags,
                           refreshing, loadedCounts>>
       ELSE handleDrop(kq.id.val, TargetOf(kq.draggedType, kq.targetType))

DropInputs ==
    {[pc |-> "dropped", transfer |-> transfer, id |-> id, draggedType |-> draggedType,
      targetType |-> targetType] :
        transfer \in BOOLEAN, id \in Optional(ParentIds),
        draggedType \in DraggedTypes, targetType \in TargetTypes}

InitValidate ==
    /\ now = 0
    /\ config = ConfiguredFor(1)
    /\ connection = loadConfig(config, Null)
    /\ cache \in DropCaches
    /\ stateCache = EmptyMap
    /\ InitProvider
    /\ timers = <<>>
    /\ remoteVer = 0
    /\ fetches = <<>>
    /\ muts = <<>>
    /\ budget = 1
    /\ obs = Idle
    /\ kq \in DropInputs
    /\ remoteTags = <<>>
    /\ currentTags = Undefined
    /\ panels = <<>>
    /\ openPanels = EmptyMap
    /\ commands = activate
    /\ refreshing = FALSE
    /\ loadedCounts = EmptyMap

NextValidate == DropOn

SpecValidate == InitValidate /\ [][NextValidate]_vars

(* the pairs of dragged type and target type that may be moved *)
ValidPairs ==
    {<<"userstory", "feature">>, <<"bug", "feature">>, <<"feature", "epic">>,
     <<"epic", "team">>}

(* the drop carries data, the entry has an id, and the pair is a valid one *)
Accepted ==
    /\ kq.transfer
    /\ kq.id # Undefined
    /\ kq.targetType # Undefined
    /\ <<kq.draggedType, kq.targetType.val>> \in ValidPairs

(* C40: handleDrop starts the remote calls of a reparent for the pairs      *)
(* userstory on feature, bug on feature, feature on epic and epic on team,  *)
(* and for these only: for every other pair, for a drop on no element, for  *)
(* an entry without id and for a drop without data, no remote call is made  *)
(* and the cache is left as it was                                          *)
C40_DropValidation ==
    [][budget' = budget - 1 =>
          /\ Accepted =>
                /\ Len(muts') = Len(muts) + 1
                /\ muts'[Len(muts')].kind = "unlink"
                /\ muts'[Len(muts')].id = kq.id.val
          /\ ~Accepted => muts' = muts
          /\ fetches' = fetches
          /\ cache' = cache
          /\ stateCache' = stateCache]_vars

(* a feature was dropped on a feature, with entries in the cache: the drop  *)
(* was refused                                                              *)
C40_Witness ==
    /\ obs.op = "dropRefused"
    /\ kq.draggedType = "feature"
    /\ kq.targetType = Val("feature")
    /\ kq.id # Undefined
    /\ cache # EmptyMap
    /\ muts = <<>>

============================================================================
